---- MODULE Spec2Model ----
(***************************************************************************)
(* A model of MetaDataServer (src/metadataserver.py) and of its earlier    *)
(* revision MetaServer (src/metaserver.py).                                *)
(*                                                                         *)
(* JSON objects (Python dicts) are functions from field names to values.   *)
(* Identifiers, titles and timestamps are strings, so that len(id) < 4 and *)
(* Python's truthiness of a string are computed as the code computes them. *)
(* A collection of the document store is the sequence of its documents in  *)
(* insertion order (find_one and cursor[0] return the first match); every  *)
(* document carries the store identifier `_id` next to its domain `id`.    *)
(***************************************************************************)
EXTENDS Integers, Sequences, FiniteSets, TLC

VARIABLES
    db,         \* the document store: collection name -> sequence of documents
    APIKEYS,    \* metadataserver.py:63, the in-memory capability table
    nextUuid,   \* number of uuid.uuid1() values drawn so far
    nextOid,    \* number of ObjectIds the store has handed out so far
    now,        \* the reading of datetime.datetime.now()
    imp,        \* per worker: the position and locals of a running package_list POST
    req,        \* the last request handled by an atomic handler
    resp,       \* its response
    nreq,       \* number of requests started so far
    rl,         \* position and locals of the worker running load_keys step by step
    rd,         \* the concurrent reader's last check_capability during a reload
    fx          \* log of the runs of fix_ids, and of clean_json and restore_json, on single objects

vars == <<db, APIKEYS, nextUuid, nextOid, now, imp, req, resp, nreq, rl, rd, fx>>

-----------------------------------------------------------------------------
(* Bounds of the model.                                                    *)

MaxImports == 2
MaxRequests == 2
MaxFix == 3
MaxReload == 2
MaxClock == 1

-----------------------------------------------------------------------------
(* Python dict primitives.                                                 *)

EmptyDict == [k \in {} |-> ""]

Has(d, k) == k \in DOMAIN d

Put(d, k, v) == [x \in (DOMAIN d) \cup {k} |-> IF x = k THEN v ELSE d[x]]

Del(d, k) == [x \in (DOMAIN d) \ {k} |-> d[x]]

\* d.get(k, dflt)
Get(d, k, dflt) == IF k \in DOMAIN d THEN d[k] ELSE dflt

\* truthiness of d.get(k) for a string-valued field: present and non-empty
Truthy(d, k) == k \in DOMAIN d /\ d[k] # ""

\* str(uuid.uuid1()): the n-th identifier drawn; uuid1 values never repeat
Uuid(n) == "00000000-0000-0000-0000-00000000000" \o ToString(n)

\* datetime.datetime.now().isoformat() at clock reading t
IsoFormat(t) == "T" \o ToString(t)

\* the ObjectId the store assigns to the n-th inserted document
ObjectId(n) == n

FRAME_OF_REFERENCE == "http://advene.liris.cnrs.fr/ns/frame_of_reference/ms"

-----------------------------------------------------------------------------
(* Identifier Assigner.                                                    *)

\* a variant whose length test is passed by no id: every id is replaced
fix_ids_regenerating(data, mapping, n) ==
    IF ~Has(data, "id")
    THEN [ok |-> TRUE, data |-> Put(data, "id", Uuid(n + 1)), mapping |-> mapping, used |-> 1]
    ELSE [ok |-> TRUE,
          data |-> Put(Put(data, "mds:oldid", data["id"]), "id", Uuid(n + 1)),
          mapping |-> Put(mapping, data["id"], Uuid(n + 1)),
          used |-> 1]

\* metadataserver.py fix_ids(data, mapping), n uuids having been drawn before.
\* The result carries the mutated data and mapping and the number of uuids drawn.
fix_ids(data, mapping, n) ==
    IF ~Has(data, "id")
    THEN [ok |-> TRUE, data |-> Put(data, "id", Uuid(n + 1)), mapping |-> mapping, used |-> 1]
    ELSE IF Len(data["id"]) < 4
    THEN [ok |-> TRUE,
          data |-> Put(Put(data, "mds:oldid", data["id"]), "id", Uuid(n + 1)),
          mapping |-> Put(mapping, data["id"], Uuid(n + 1)),
          used |-> 1]
    ELSE [ok |-> TRUE, data |-> data, mapping |-> mapping, used |-> 0]

\* metaserver.py fix_ids(data, mapping): data['id'] is read unconditionally, so an
\* object without `id` raises KeyError (ok = FALSE) and nothing is assigned.
metaserver_fix_ids(data, mapping, n) ==
    IF ~Has(data, "id")
    THEN [ok |-> FALSE, data |-> data, mapping |-> mapping, used |-> 0]
    ELSE IF Len(data["id"]) < 36
    THEN [ok |-> TRUE,
          data |-> Put(Put(data, "mds:oldid", data["id"]), "id", Uuid(n + 1)),
          mapping |-> Put(mapping, data["id"], Uuid(n + 1)),
          used |-> 1]
    ELSE [ok |-> TRUE, data |-> data, mapping |-> mapping, used |-> 0]

-----------------------------------------------------------------------------
(* Field Sanitizer and Reference Rewriter.                                 *)

\* meta = data.get('meta', data): the sub-map when there is one, else the object
MetaOf(data) == IF Has(data, "meta") THEN data["meta"] ELSE data

\* writes through the alias `meta` land in data['meta'] or in data itself
WithMeta(data, m) == IF Has(data, "meta") THEN Put(data, "meta", m) ELSE m

\* if not meta.get(n): meta[n] = now().isoformat()
FillStamp(m, n, t) == IF Truthy(m, n) THEN m ELSE Put(m, n, IsoFormat(t))

\* if n in meta: meta[n.replace(from, to)] = meta[n]; del meta[n]
Rename(m, old, new) == IF Has(m, old) THEN Del(Put(m, new, m[old]), old) ELSE m

\* newidref = mapping.get(meta.get('id-ref'), meta.get('id-ref'))
RewriteIdRef(m, mapping) ==
    IF Has(m, "id-ref") THEN Put(m, "id-ref", Get(mapping, m["id-ref"], m["id-ref"])) ELSE m

\* newmedia = mapping.get(data.get('media'), data.get('media')); if newmedia: ...
RewriteMedia(data, mapping) ==
    IF Has(data, "media") /\ Get(mapping, data["media"], data["media"]) # ""
    THEN Put(data, "media", Get(mapping, data["media"], data["media"]))
    ELSE data

\* metadataserver.py clean_json(data, mapping); t1 and t2 are the readings of the
\* two now() calls of the created/modified loop.
clean_json(data, mapping, n, t1, t2) ==
    LET f  == fix_ids(data, mapping, n)
        d1 == Del(f.data, FRAME_OF_REFERENCE)
        m1 == FillStamp(MetaOf(d1), "dc:created", t1)
        m2 == FillStamp(m1, "dc:modified", t2)
        m3 == Rename(m2, "dc:created.contents", "dc:created_contents")
        m4 == Rename(m3, "dc:creator.contents", "dc:creator_contents")
        m5 == RewriteIdRef(m4, f.mapping)
        d2 == WithMeta(d1, m5)
    IN  [data |-> RewriteMedia(d2, f.mapping), mapping |-> f.mapping, used |-> f.used]

\* metadataserver.py:301-304: an object with a `unit` needs meta['dc:duration'],
\* and `meta` is a throw-away {} when the object has no `meta` (KeyError)
restore_json_raises(data) ==
    Has(data, "unit") /\ ~(Has(data, "meta") /\ Has(data["meta"], "dc:duration"))

\* long(v), for the JSON numbers the durations of the model are
long(v) == v

\* metadataserver.py:301-304: the frame of reference and the origin are put back
RestoreUnit(data) ==
    IF Has(data, "unit") /\ ~restore_json_raises(data)
    THEN Put(Put(Put(data, FRAME_OF_REFERENCE, "o=0"), "origin", 0), "meta",
             Put(data["meta"], "dc:duration", long(data["meta"]["dc:duration"])))
    ELSE data

\* metadataserver.py restore_json(data), where it does not raise
restore_json(data) ==
    RestoreUnit(IF ~Has(data, "meta") THEN data
                ELSE Put(data, "meta",
                         Rename(Rename(data["meta"], "dc:created_contents",
                                       "dc:created.contents"),
                                "dc:creator_contents", "dc:creator.contents")))

-----------------------------------------------------------------------------
(* The document store (pymongo collections).                               *)

Collections == {"medias", "annotationtypes", "annotations", "packages", "userinfo"}

\* the documents of sequence c whose field f equals v: find({f: v})
Find(c, f, v) == SelectSeq(c, LAMBDA d: Has(d, f) /\ d[f] = v)

\* find({f: v}).count()
Count(c, f, v) == Len(Find(c, f, v))

\* collection.save(doc): replace the document with doc's _id, else insert doc
\* under the next ObjectId. n is the number of ObjectIds handed out so far.
Save(c, doc, n) ==
    IF Has(doc, "_id") /\ \E i \in 1..Len(c): c[i]["_id"] = doc["_id"]
    THEN [i \in 1..Len(c) |-> IF c[i]["_id"] = doc["_id"] THEN doc ELSE c[i]]
    ELSE IF Has(doc, "_id") THEN Append(c, doc)
    ELSE Append(c, Put(doc, "_id", ObjectId(n + 1)))

\* the number of ObjectIds Save draws
SaveUsed(doc) == IF Has(doc, "_id") THEN 0 ELSE 1

\* a variant of remove that takes out the first matching document only
Remove_one(c, f, v) ==
    LET hits == {i \in 1..Len(c) : Has(c[i], f) /\ c[i][f] = v}
    IN  IF hits = {} THEN c
        ELSE LET first == CHOOSE i \in hits : \A j \in hits : i <= j
             IN  SubSeq(c, 1, first - 1) \o SubSeq(c, first + 1, Len(c))

\* collection.remove({f: v}): every matching document is removed
Remove(c, f, v) == SelectSeq(c, LAMBDA d: ~(Has(d, f) /\ d[f] = v))

\* load_keys(): the table built from the apikeys documents, later records of a
\* key overwriting earlier ones
RECURSIVE KeyTable(_)
KeyTable(ks) ==
    IF ks = <<>> THEN EmptyDict
    ELSE LET k == ks[Len(ks)]
         IN  Put(KeyTable(SubSeq(ks, 1, Len(ks) - 1)), k["key"],
                 {k["capabilities"][i] : i \in 1..Len(k["capabilities"])})

-----------------------------------------------------------------------------
(* Request credentials and the capability check.                           *)

DEFAULT_KEY == "default"

\* get_api_key(): header is the x-apikey header and param the apikey parameter,
\* "" standing for an absent (or empty) one
get_api_key(header, param) ==
    LET key == IF header # "" THEN header ELSE DEFAULT_KEY
    IN  IF param # "" /\ param # DEFAULT_KEY THEN param ELSE key

\* a variant whose default for an unknown key is every action asked for
check_capability_open(tbl, key, actions) == actions \cap Get(tbl, key, actions)

\* check_capability(key, actions) against capability table tbl: the Python value
\* is the intersection, and callers test its truthiness
check_capability(tbl, key, actions) == actions \cap Get(tbl, key, {})

\* "%s%s" % (request.method, el) for el in els
Required(method, els) == {method \o el : el \in els}

\* the check_access decorator: TRUE when the wrapped handler is entered
check_access(tbl, key, method, els) ==
    check_capability(tbl, key, Required(method, els)) # {}

-----------------------------------------------------------------------------
(* Import bundles: the JSON bodies POSTed to api/package/.                 *)

\* The package descriptor's main_media is a JSON string, a JSON object or null;
\* the three shapes are kept apart by `kind`.
MMStr(s) == [kind |-> "str", str |-> s, dict |-> EmptyDict]
MMDict(d) == [kind |-> "dict", str |-> "", dict |-> d]
MMNull == [kind |-> "null", str |-> "", dict |-> EmptyDict]
MMRef(s) == MMDict("id-ref" :> s)

Media(id) == [id |-> id, url |-> "u"]
AType(id, title) == ("id" :> id) @@ ("dc:title" :> title)
Annotation(id, media, type) == [id |-> id, media |-> media, meta |-> ("id-ref" :> type)]
Package(id, mm) == [id |-> id, main_media |-> mm]

Bundle(ms, ts, as, p) == [medias |-> ms, types |-> ts, annotations |-> as, meta |-> p]

NoBundle == Bundle(<<>>, <<>>, <<>>, EmptyDict)

Bundles == <<
    \* 1: the scenario of the specification, the package carrying no id
    Bundle(<<Media("m1")>>, <<AType("t1", "Note")>>, <<Annotation("a1", "m1", "t1")>>,
           [main_media |-> MMRef("m1")]),
    \* 2: the same with a canonical package id
    Bundle(<<Media("m1")>>, <<AType("t1", "Note")>>, <<Annotation("a1", "m1", "t1")>>,
           Package("pack-A", MMRef("m1"))),
    \* 3: the same with a short package id
    Bundle(<<Media("m1")>>, <<AType("t1", "Note")>>, <<Annotation("a1", "m1", "t1")>>,
           Package("p1", MMRef("m1"))),
    \* 4: canonical ids throughout
    Bundle(<<Media("media-A")>>, <<AType("type-A", "Tag")>>,
           <<Annotation("anno-A", "media-A", "type-A")>>, Package("pack-B", MMRef("media-A"))),
    \* 5: a Media, an AnnotationType and an Annotation with the same short id
    Bundle(<<Media("x1")>>, <<AType("x1", "Note")>>, <<Annotation("x1", "x1", "x1")>>,
           Package("pack-C", MMRef("x1"))),
    \* 6: a Media and an AnnotationType with the same short id
    Bundle(<<Media("x1")>>, <<AType("x1", "Tag")>>, <<Annotation("a1", "x1", "x1")>>,
           Package("pack-D", MMRef("x1"))),
    \* 7: the same title twice inside one bundle
    Bundle(<<Media("m1")>>, <<AType("t1", "Note"), AType("t2", "Note")>>,
           <<Annotation("a1", "m1", "t1"), Annotation("a2", "m1", "t2")>>,
           Package("pack-E", MMRef("m1"))),
    \* 8: main_media given as a plain string
    Bundle(<<Media("m1")>>, <<>>, <<>>, Package("pack-F", MMStr("m1"))),
    \* 9: the placeholder main_media
    Bundle(<<Media("m1")>>, <<AType("t1", "Note")>>, <<>>, Package("pack-G", MMRef("package1"))),
    \* 10: no main_media at all
    Bundle(<<Media("m1")>>, <<>>, <<>>, [id |-> "pack-H"]),
    \* 11: an empty main_media, and no Media
    Bundle(<<>>, <<AType("t3", "Tag")>>, <<Annotation("a3", "media-A", "t3")>>,
           Package("pack-I", MMDict(EmptyDict))),
    \* 12: a null main_media
    Bundle(<<Media("m1")>>, <<>>, <<>>, Package("pack-J", MMNull)),
    \* 13: an AnnotationType without id
    Bundle(<<Media("media-A")>>, <<"dc:title" :> "Note">>, <<>>, Package("pack-K", MMRef("media-A"))),
    \* 14: a Media without id
    Bundle(<<[url |-> "u"]>>, <<>>, <<>>, Package("pack-L", MMRef("m1"))),
    \* 15: an AnnotationType without title
    Bundle(<<Media("m1")>>, <<[id |-> "t1"]>>, <<>>, Package("pack-M", MMRef("m1"))),
    \* 16: a canonical type id whose title may already be stored under another id
    Bundle(<<Media("m2")>>, <<AType("type-B", "Note")>>, <<Annotation("a4", "m2", "type-B")>>,
           Package("pack-A", MMRef("m2")))
>>

\* The stores the server may be started on
Stored(doc, oid, t) ==
    Put(Put(Put(doc, "_id", ObjectId(oid)), "dc:created", IsoFormat(t)), "dc:modified", IsoFormat(t))

EmptyStore ==
    [medias |-> <<>>, annotationtypes |-> <<>>, annotations |-> <<>>, packages |-> <<>>,
     userinfo |-> <<>>, apikeys |-> <<>>]

ApiKey(key, caps, oid) == [key |-> key, capabilities |-> caps, _id |-> ObjectId(oid)]

-----------------------------------------------------------------------------
(* Bundle Importer: package_list, POST branch, one action per store round  *)
(* trip. imp[w] holds the locals of worker w: the bundle (its index b in   *)
(* Bundles), the mapping table, the loop index i and the package p; status *)
(* and id are the response. mids, tids and adocs record, per bundle object *)
(* processed so far, the id under which it is stored (for an Annotation, the *)
(* stored document); dedup is the index of the AnnotationType the last     *)
(* step found stored by title; again and pkgs0                             *)
(* record whether the same bundle was imported to completion before and    *)
(* the packages collection at the start of the request.                    *)

Workers == {1, 2}

IdleImport ==
    [pc |-> "idle", b |-> 0, key |-> "", mapping |-> EmptyDict, i |-> 0, p |-> EmptyDict,
     found |-> FALSE, status |-> "", id |-> "", mids |-> <<>>, tids |-> <<>>, adocs |-> <<>>,
     dedup |-> 0, again |-> FALSE, pkgs0 |-> <<>>, done |-> {}]

BundleOf(w) == IF imp[w].b = 0 THEN NoBundle ELSE Bundles[imp[w].b]

\* the readings the two now() calls of one clean_json may return
Readings == {tt \in (now..MaxClock) \X (now..MaxClock) : tt[1] <= tt[2]}

\* a variant of the loops of package_list that takes the annotations before the
\* annotation types
NextPos_annotations_first(bundle, stage, i) ==
    LET lens  == [medias |-> Len(bundle.medias), types |-> Len(bundle.types),
                  annotations |-> Len(bundle.annotations)]
        order == <<"medias", "annotations", "types">>
        idx   == IF stage = "" THEN 0 ELSE CHOOSE k \in 1..3 : order[k] = stage
        later == {k \in (idx + 1)..3 : lens[order[k]] > 0}
    IN  IF idx > 0 /\ i < lens[stage] THEN [pc |-> stage, i |-> i + 1]
        ELSE IF later = {} THEN [pc |-> "package", i |-> 0]
        ELSE [pc |-> order[CHOOSE k \in later : \A j \in later : k <= j], i |-> 1]

\* the position after object i of `stage`: the next object of the stage, or the
\* first object of the next non-empty loop, or the package
NextPos(bundle, stage, i) ==
    LET lens  == [medias |-> Len(bundle.medias), types |-> Len(bundle.types),
                  annotations |-> Len(bundle.annotations)]
        order == <<"medias", "types", "annotations">>
        idx   == IF stage = "" THEN 0 ELSE CHOOSE k \in 1..3 : order[k] = stage
        later == {k \in (idx + 1)..3 : lens[order[k]] > 0}
    IN  IF idx > 0 /\ i < lens[stage] THEN [pc |-> stage, i |-> i + 1]
        ELSE IF later = {} THEN [pc |-> "package", i |-> 0]
        ELSE [pc |-> order[CHOOSE k \in later : \A j \in later : k <= j], i |-> 1]

\* an uncaught exception: the request ends in a 500 response
Abort(w) == imp' = [imp EXCEPT ![w].pc = "idle", ![w].status = "500"]

Advance(w, stage, rest) ==
    LET np == NextPos(BundleOf(w), stage, imp[w].i)
    IN  imp' = [imp EXCEPT ![w] = [rest EXCEPT !.pc = np.pc, !.i = np.i]]

\* a variant of the start of package_list that goes on with the mapping of the
\* worker's previous import
StartImport_keeping(w, b, header, param) ==
    /\ imp[w].pc = "idle"
    /\ nreq < MaxImports
    /\ nreq' = nreq + 1
    /\ IF check_access(APIKEYS, get_api_key(header, param), "POST", {"elements", "packages"})
       THEN LET np == NextPos(Bundles[b], "", 0)
            IN  imp' = [imp EXCEPT ![w] =
                    [IdleImport EXCEPT !.pc = np.pc, !.i = np.i, !.b = b,
                                       !.key = get_api_key(header, param),
                                       !.again = b \in imp[w].done, !.mapping = imp[w].mapping, !.done = imp[w].done,
                                       !.pkgs0 = db.packages]]
       ELSE imp' = [imp EXCEPT ![w] =
                    [IdleImport EXCEPT !.status = "403", !.b = b, !.done = imp[w].done,
                                       !.key = get_api_key(header, param),
                                       !.pkgs0 = db.packages]]
    /\ UNCHANGED <<db, APIKEYS, nextUuid, nextOid, now, req, resp, rl, rd, fx>>

\* metadataserver.py:666-672: the access check and the start of the POST branch
StartImport(w, b, header, param) ==
    /\ imp[w].pc = "idle"
    /\ nreq < MaxImports
    /\ nreq' = nreq + 1
    /\ IF check_access(APIKEYS, get_api_key(header, param), "POST", {"elements", "packages"})
       THEN LET np == NextPos(Bundles[b], "", 0)
            IN  imp' = [imp EXCEPT ![w] =
                    [IdleImport EXCEPT !.pc = np.pc, !.i = np.i, !.b = b,
                                       !.key = get_api_key(header, param),
                                       !.again = b \in imp[w].done, !.done = imp[w].done,
                                       !.pkgs0 = db.packages]]
       ELSE imp' = [imp EXCEPT ![w] =
                    [IdleImport EXCEPT !.status = "403", !.b = b, !.done = imp[w].done,
                                       !.key = get_api_key(header, param),
                                       !.pkgs0 = db.packages]]
    /\ UNCHANGED <<db, APIKEYS, nextUuid, nextOid, now, req, resp, rl, rd, fx>>

\* metadataserver.py:676-677: l = db['medias'].find({'id': m['id']}); l.count() != 0
MediaExists(c, m) == Count(c, "id", m["id"]) # 0

ImportMediaFind(w) ==
    /\ imp[w].pc = "medias"
    /\ LET m == BundleOf(w).medias[imp[w].i]
       IN  IF ~Has(m, "id") THEN Abort(w)
           ELSE IF MediaExists(db.medias, m)
           THEN Advance(w, "medias", [imp[w] EXCEPT !.mids = Append(@, m["id"])])
           ELSE imp' = [imp EXCEPT ![w].pc = "media_save"]
    /\ UNCHANGED <<db, APIKEYS, nextUuid, nextOid, now, req, resp, nreq, rl, rd, fx>>

\* metadataserver.py:679: db['medias'].save(clean_json(m, mapping))
ImportMediaSave(w) ==
    /\ imp[w].pc = "media_save"
    /\ \E tt \in Readings:
        LET r == clean_json(BundleOf(w).medias[imp[w].i], imp[w].mapping, nextUuid, tt[1], tt[2])
        IN  /\ db' = [db EXCEPT !.medias = Save(@, r.data, nextOid)]
            /\ nextUuid' = nextUuid + r.used
            /\ nextOid' = nextOid + SaveUsed(r.data)
            /\ now' = tt[2]
            /\ Advance(w, "medias", [imp[w] EXCEPT !.mapping = r.mapping,
                                                   !.mids = Append(@, r.data["id"])])
    /\ UNCHANGED <<APIKEYS, req, resp, nreq, rl, rd, fx>>

\* a variant that takes every AnnotationType for a new one
TypeExists_never(c, at) == FALSE

\* metadataserver.py:681-682: find({'dc:title': at['dc:title']}).count() != 0
TypeExists(c, at) == Count(c, "dc:title", at["dc:title"]) # 0

\* metadataserver.py:681-687, existing title: mapping[at['id']] = l[0]['id']
ImportTypeFind(w) ==
    /\ imp[w].pc = "types"
    /\ LET at == BundleOf(w).types[imp[w].i]
       IN  IF ~Has(at, "dc:title") THEN Abort(w)
           ELSE IF ~TypeExists(db.annotationtypes, at)
           THEN imp' = [imp EXCEPT ![w].pc = "type_save"]
           ELSE IF ~Has(at, "id") THEN Abort(w)
           ELSE LET l == Find(db.annotationtypes, "dc:title", at["dc:title"])
                IN  Advance(w, "types",
                            [imp[w] EXCEPT !.mapping = Put(@, at["id"], l[1]["id"]),
                                           !.tids = Append(@, l[1]["id"]),
                                           !.dedup = imp[w].i])
    /\ UNCHANGED <<db, APIKEYS, nextUuid, nextOid, now, req, resp, nreq, rl, rd, fx>>

\* metadataserver.py:684: db['annotationtypes'].save(clean_json(at, mapping))
ImportTypeSave(w) ==
    /\ imp[w].pc = "type_save"
    /\ \E tt \in Readings:
        LET r == clean_json(BundleOf(w).types[imp[w].i], imp[w].mapping, nextUuid, tt[1], tt[2])
        IN  /\ db' = [db EXCEPT !.annotationtypes = Save(@, r.data, nextOid)]
            /\ nextUuid' = nextUuid + r.used
            /\ nextOid' = nextOid + SaveUsed(r.data)
            /\ now' = tt[2]
            /\ Advance(w, "types", [imp[w] EXCEPT !.mapping = r.mapping,
                                                  !.tids = Append(@, r.data["id"]),
                                                  !.dedup = 0])
    /\ UNCHANGED <<APIKEYS, req, resp, nreq, rl, rd, fx>>

\* metadataserver.py:688-689: db['annotations'].save(clean_json(a, mapping))
ImportAnnotation(w) ==
    /\ imp[w].pc = "annotations"
    /\ \E tt \in Readings:
        LET r == clean_json(BundleOf(w).annotations[imp[w].i], imp[w].mapping, nextUuid,
                            tt[1], tt[2])
        IN  /\ db' = [db EXCEPT !.annotations = Save(@, r.data, nextOid)]
            /\ nextUuid' = nextUuid + r.used
            /\ nextOid' = nextOid + SaveUsed(r.data)
            /\ now' = tt[2]
            /\ Advance(w, "annotations", [imp[w] EXCEPT !.mapping = r.mapping,
                                                        !.adocs = Append(@, r.data),
                                                        !.dedup = 0])
    /\ UNCHANGED <<APIKEYS, req, resp, nreq, rl, rd, fx>>

\* a variant that never finds the package stored
PackageExists_never(c, p) == FALSE

\* metadataserver.py:709-710: l = db['packages'].find_one({'id': p['id']}); l is found
PackageExists(c, p) == Count(c, "id", p["id"]) # 0

\* metadataserver.py:694-696: a plain string is wrapped into a reference object
WrapMainMedia(mm) == IF mm.kind = "str" THEN MMRef(mm.str) ELSE mm

\* a variant of the test that never takes the default
DefaultsToFirstMedia_never(mm) == FALSE

\* metadataserver.py:698: not p.get('main_media') or the placeholder reference
DefaultsToFirstMedia(mm) ==
    \/ mm.kind = "null"
    \/ mm.kind = "dict" /\ DOMAIN mm.dict = {}
    \/ mm.kind = "dict" /\ Has(mm.dict, "id-ref") /\ mm.dict["id-ref"] = "package1"

\* metadataserver.py:702-704: the reference is replaced when the mapping has it
RewriteMainMedia(mm, mapping) ==
    IF Has(mm.dict, "id-ref") /\ Has(mapping, mm.dict["id-ref"])
    THEN MMDict(Put(mm.dict, "id-ref", mapping[mm.dict["id-ref"]]))
    ELSE mm

\* metadataserver.py:691-709. A missing main_media raises KeyError at line 694.
\* On the default-to-first-media path line 700 stores a dict {'id-ref': ...} under
\* 'id-ref' (after IndexError/KeyError when there is no first Media, TypeError on a
\* null main_media) and line 702 then looks that dict up in the mapping, which
\* raises TypeError (unhashable): every run through that path ends in a 500.
ImportPackage(w) ==
    /\ imp[w].pc = "package"
    /\ LET p == BundleOf(w).meta
       IN  IF ~Has(p, "main_media") THEN Abort(w) /\ UNCHANGED nextUuid
           ELSE IF DefaultsToFirstMedia(WrapMainMedia(p["main_media"]))
           THEN Abort(w) /\ UNCHANGED nextUuid
           ELSE LET mm == RewriteMainMedia(WrapMainMedia(p["main_media"]), imp[w].mapping)
                    f  == fix_ids(Put(p, "main_media", mm), EmptyDict, nextUuid)
                IN  /\ nextUuid' = nextUuid + f.used
                    /\ imp' = [imp EXCEPT ![w].pc = "package_save", ![w].p = f.data,
                                          ![w].dedup = 0,
                                          ![w].found = PackageExists(db.packages, f.data)]
    /\ UNCHANGED <<db, APIKEYS, nextOid, now, req, resp, nreq, rl, rd, fx>>

\* metadataserver.py:710-712: if not l: db['packages'].save(p); return jsonify(id=p['id'])
ImportPackageSave(w) ==
    /\ imp[w].pc = "package_save"
    /\ IF imp[w].found
       THEN UNCHANGED <<db, nextOid>>
       ELSE /\ db' = [db EXCEPT !.packages = Save(@, imp[w].p, nextOid)]
            /\ nextOid' = nextOid + SaveUsed(imp[w].p)
    /\ imp' = [imp EXCEPT ![w].pc = "idle", ![w].status = "200", ![w].id = imp[w].p["id"],
                          ![w].done = @ \cup {imp[w].b}]
    /\ UNCHANGED <<APIKEYS, nextUuid, now, req, resp, nreq, rl, rd, fx>>

-----------------------------------------------------------------------------
(* Start-up: connect_db() and load_keys() (metadataserver.py:804-811).     *)

\* metadataserver.py:808, the capabilities of a key added with --admin-api-key
AdminCaps ==
    <<"GETadmin", "POSTadmin", "GETelements", "GETelement", "PUTelement", "POSTelements",
      "DELETEelement", "POSTelement", "GETunfilteredelements", "GETkeys", "GETkey",
      "PUTkey", "DELETEkey", "POSTkeys">>

ImportStores ==
    { [EmptyStore EXCEPT !.apikeys = <<ApiKey("admin", AdminCaps, 1),
                                       ApiKey("reader", <<"GETelements">>, 2)>>],
      [EmptyStore EXCEPT
          !.apikeys = <<ApiKey("admin", AdminCaps, 1), ApiKey("reader", <<"GETelements">>, 2)>>,
          !.medias = <<Stored(Media("media-A"), 3, 0)>>,
          !.annotationtypes = <<Stored(AType("type-A", "Note"), 4, 0)>>,
          !.packages = <<Put(Package("pack-A", MMRef("media-A")), "_id", ObjectId(5))>>] }

NoRequest ==
    [method |-> "", endpoint |-> "", collection |-> "", eid |-> "", header |-> "",
     param |-> "", filters |-> <<>>, json |-> FALSE, body |-> EmptyDict]

NoResponse == [status |-> "", gate |-> "", body |-> <<>>]

\* a worker outside load_keys; inside, cursor is the list read from the store, i
\* the record the loop is at, old the table bound when the reload was triggered
IdleReload == [pc |-> "idle", cursor |-> <<>>, i |-> 0, old |-> EmptyDict, status |-> ""]

NoRead ==
    [key |-> "", actions |-> {}, granted |-> FALSE, during |-> FALSE, before |-> FALSE,
     after |-> FALSE]

InitCommon ==
    /\ APIKEYS = KeyTable(db.apikeys)
    /\ nextUuid = 0
    /\ nextOid = 12   \* the stores of the model hold ObjectIds up to 12
    /\ now = 0
    /\ imp = [w \in Workers |-> IdleImport]
    /\ req = NoRequest
    /\ resp = NoResponse
    /\ nreq = 0
    /\ rl = [w \in Workers |-> IdleReload]
    /\ rd = NoRead
    /\ fx = <<>>

InitImport == db \in ImportStores /\ InitCommon

ImportCredentials == {<<"admin", "">>, <<"", "reader">>}

\* sequential imports: one request is handled to its end before the next starts
NextImport ==
    \/ \E b \in 1..Len(Bundles), c \in ImportCredentials: StartImport(1, b, c[1], c[2])
    \/ ImportMediaFind(1)
    \/ ImportMediaSave(1)
    \/ ImportTypeFind(1)
    \/ ImportTypeSave(1)
    \/ ImportAnnotation(1)
    \/ ImportPackage(1)
    \/ ImportPackageSave(1)

SpecImport == InitImport /\ [][NextImport]_vars

-----------------------------------------------------------------------------
(* String operations of the handlers.                                      *)

\* a variant that leaves the collection name as it is
rstrip_none(s) == s

\* s.rstrip('s'): every trailing "s" is removed
RECURSIVE rstrip_s(_)
rstrip_s(s) ==
    IF Len(s) > 0 /\ SubSeq(s, Len(s), Len(s)) = "s"
    THEN rstrip_s(SubSeq(s, 1, Len(s) - 1))
    ELSE s

\* s.split(sep) for a one-character separator; cur is the part being read
RECURSIVE SplitFrom(_, _, _)
SplitFrom(s, sep, cur) ==
    IF Len(s) = 0 THEN <<cur>>
    ELSE IF SubSeq(s, 1, 1) = sep THEN <<cur>> \o SplitFrom(SubSeq(s, 2, Len(s)), sep, "")
    ELSE SplitFrom(SubSeq(s, 2, Len(s)), sep, cur \o SubSeq(s, 1, 1))

Split(s, sep) == SplitFrom(s, sep, "")

-----------------------------------------------------------------------------
(* Annotation Normalizer.                                                  *)

\* the readings of the successive now() calls of one handler run
Readings5 ==
    {tt \in [1..5 -> now..MaxClock] : \A k \in 1..4 : tt[k] <= tt[k + 1]}

\* metadataserver.py:326-329; KeyError when `created` comes without `creator`
MigrateLegacy(m) ==
    IF ~Has(m, "created") THEN [ok |-> TRUE, m |-> m]
    ELSE IF ~Has(m, "creator") THEN [ok |-> FALSE, m |-> m]
    ELSE [ok |-> TRUE,
          m |-> Del(Del(Put(Put(Put(Put(m, "dc:modified", m["created"]),
                                    "dc:created", m["created"]),
                                "dc:contributor", m["creator"]),
                            "dc:creator", m["creator"]),
                        "creator"), "created")]

\* metadataserver.py:330-333; line 333 writes the key 'dc: creator'
StampDefaults(m, t) ==
    IF Has(m, "dc:created") THEN m
    ELSE Put(Put(Put(Put(m, "dc:modified", IsoFormat(t)), "dc:created", IsoFormat(t)),
                 "dc:contributor", "system"), "dc: creator", "system")

\* metadataserver.py:338-345, the annotation type created for a title
SystemType(title, created) ==
    ("dc:contributor" :> "system") @@ ("dc:creator" :> "system") @@ ("dc:title" :> title)
        @@ ("dc:description" :> "") @@ ("dc:modified" :> created) @@ ("dc:created" :> created)

\* a variant of the lookup that finds no type
TypeByTitle_none(types, title) == <<>>

\* metadataserver.py:335: db['annotationtypes'].find_one({'dc:title': title}), as
\* the list of the matches, find_one returning the first
TypeByTitle(types, title) == Find(types, "dc:title", title)

\* metadataserver.py normalize_annotation(data) on the annotationtypes collection
\* `types`; n uuids and o ObjectIds were drawn before; tt are the clock readings.
\* ok = FALSE is a KeyError (no `meta`, or `created` without `creator`).
normalize_annotation(data, types, n, o, tt) ==
    IF ~Has(data, "meta")
    THEN [ok |-> FALSE, data |-> data, types |-> types, used |-> 0, saved |-> 0]
    ELSE LET g == MigrateLegacy(data["meta"])
             m == StampDefaults(g.m, tt[1])
         IN  IF ~g.ok
             THEN [ok |-> FALSE, data |-> data, types |-> types, used |-> 0, saved |-> 0]
             ELSE IF Has(m, "id-ref") \/ ~Has(data, "type_title")
             THEN [ok |-> TRUE, data |-> Put(data, "meta", m), types |-> types,
                   used |-> 0, saved |-> 0]
             ELSE LET l == TypeByTitle(types, data["type_title"])
                  IN  IF l # <<>>
                      THEN [ok |-> TRUE,
                            data |-> Put(data, "meta", Put(m, "id-ref", l[1]["id"])),
                            types |-> types, used |-> 0, saved |-> 0]
                      ELSE LET r == clean_json(SystemType(data["type_title"], m["dc:created"]),
                                               EmptyDict, n, tt[2], tt[3])
                           IN  [ok |-> TRUE,
                                data |-> Put(data, "meta", Put(m, "id-ref", r.data["id"])),
                                types |-> Save(types, r.data, o),
                                used |-> r.used, saved |-> SaveUsed(r.data)]

-----------------------------------------------------------------------------
(* Generic element endpoints: element_list and element_get.                *)

\* metadataserver.py:419-434
SPECIFIC_QUERYMAPS ==
    [annotations |-> ("media" :> "media") @@ ("type" :> "meta.id-ref"),
     medias |-> ("url" :> "url"),
     annotationtypes |-> EmptyDict,
     userinfo |-> EmptyDict,
     packages |-> ("media" :> "main_media.id-ref")]

\* metadataserver.py:476-478: querymap.update(SPECIFIC_QUERYMAPS[collection])
QueryMap(collection) ==
    SPECIFIC_QUERYMAPS[collection]
        @@ (("user" :> "meta.dc:contributor") @@ ("creator" :> "meta.dc:creator"))

\* every filter splits into exactly a name and a value (else the unpacking of
\* f.split(':') raises ValueError)
FiltersWellFormed(filters) == \A k \in 1..Len(filters): Len(Split(filters[k], ":")) = 2

\* metadataserver.py:484-487: the query dict, a later filter of the same field
\* replacing an earlier one
RECURSIVE BuildQuery(_, _)
BuildQuery(filters, qm) ==
    IF filters = <<>> THEN EmptyDict
    ELSE LET q  == BuildQuery(SubSeq(filters, 1, Len(filters) - 1), qm)
             nv == Split(filters[Len(filters)], ":")
         IN  IF Has(qm, nv[1]) THEN Put(q, qm[nv[1]], nv[2]) ELSE q

\* the store's match of a dotted field path against a string value
MatchesPath(doc, path, value) ==
    LET ps == Split(path, ".")
    IN  IF Len(ps) = 1 THEN Has(doc, path) /\ doc[path] = value
        ELSE IF ~Has(doc, ps[1]) THEN FALSE
        ELSE IF ps[1] = "main_media"
        THEN doc[ps[1]].kind = "dict" /\ Has(doc[ps[1]].dict, ps[2])
                /\ doc[ps[1]].dict[ps[2]] = value
        ELSE Has(doc[ps[1]], ps[2]) /\ doc[ps[1]][ps[2]] = value

\* db[collection].find(query)
FindQuery(c, query) ==
    SelectSeq(c, LAMBDA d: \A path \in DOMAIN query: MatchesPath(d, path, query[path]))

Respond(status, gate, body) == [status |-> status, gate |-> gate, body |-> body]

Credential(r) == get_api_key(r.header, r.param)

\* a variant that never refuses the unfiltered listing
QueryTooGeneric_never(tbl, r) == FALSE

\* metadataserver.py:479-481: no filter parameter and no unfiltered-read token
QueryTooGeneric(tbl, r) ==
    /\ r.filters = <<>>
    /\ check_capability(tbl, Credential(r),
                        {"GETunfiltered" \o el : el \in {"elements", r.collection}}) = {}

\* the decorator of element_list (line 441): the collection and `elements`
ListTargets(collection) == {collection, "elements"}

\* a variant of the decorator of element_get without the generic `element` token
ElementTargets_specific(collection) == {rstrip_s(collection)}

\* the decorator of element_get (line 504): the stripped collection and `element`
ElementTargets(collection) == {rstrip_s(collection), "element"}

\* metadataserver.py element_list, for GET and POST requests
ElementList(r) ==
    /\ r.endpoint = "list"
    /\ req' = r
    /\ nreq' = nreq + 1
    /\ UNCHANGED <<APIKEYS, imp, rl, rd, fx>>
    /\ IF ~check_access(APIKEYS, Credential(r), r.method, ListTargets(r.collection))
       THEN /\ resp' = Respond("403", "deny", <<>>)
            /\ UNCHANGED <<db, nextUuid, nextOid, now>>
       ELSE IF r.method = "POST"
       THEN \E tt \in Readings5:
              LET nz == IF r.collection = "annotations"
                        THEN normalize_annotation(r.body, db.annotationtypes, nextUuid,
                                                  nextOid, tt)
                        ELSE [ok |-> TRUE, data |-> r.body, types |-> db.annotationtypes,
                              used |-> 0, saved |-> 0]
                  cj == clean_json(nz.data, EmptyDict, nextUuid + nz.used, tt[4], tt[5])
                  d1 == [db EXCEPT !.annotationtypes = nz.types]
              IN  IF ~nz.ok
                  THEN /\ resp' = Respond("500", "allow", <<>>)
                       /\ UNCHANGED <<db, nextUuid, nextOid, now>>
                  ELSE /\ db' = [d1 EXCEPT ![r.collection] =
                                    Save(@, cj.data, nextOid + nz.saved)]
                       /\ nextUuid' = nextUuid + nz.used + cj.used
                       /\ nextOid' = nextOid + nz.saved + SaveUsed(cj.data)
                       /\ now' = tt[5]
                       /\ resp' = IF restore_json_raises(cj.data)
                                  THEN Respond("500", "allow", <<>>)
                                  ELSE Respond("200", "allow",
                                     <<restore_json(Put(cj.data, "_id",
                                           IF Has(cj.data, "_id") THEN cj.data["_id"]
                                           ELSE ObjectId(nextOid + nz.saved + 1)))>>)
       ELSE /\ UNCHANGED <<db, nextUuid, nextOid, now>>
            /\ IF QueryTooGeneric(APIKEYS, r) THEN resp' = Respond("403", "allow", <<>>)
               ELSE IF ~FiltersWellFormed(r.filters) THEN resp' = Respond("500", "allow", <<>>)
               ELSE LET found == FindQuery(db[r.collection],
                                           BuildQuery(r.filters, QueryMap(r.collection)))
                    IN  resp' = IF \E k \in 1..Len(found): restore_json_raises(found[k])
                                THEN Respond("500", "allow", <<>>)
                                ELSE Respond("200", "allow",
                                        [k \in 1..Len(found) |-> restore_json(found[k])])

\* metadataserver.py element_get, for GET, PUT and DELETE requests
ElementGet(r) ==
    /\ r.endpoint = "element"
    /\ req' = r
    /\ nreq' = nreq + 1
    /\ UNCHANGED <<APIKEYS, imp, rl, rd, fx>>
    /\ LET els == Find(db[r.collection], "id", r.eid)
       IN  IF ~check_access(APIKEYS, Credential(r), r.method, ElementTargets(r.collection))
           THEN /\ resp' = Respond("403", "deny", <<>>)
                /\ UNCHANGED <<db, nextUuid, nextOid, now>>
           ELSE IF els = <<>>
           THEN /\ resp' = Respond("404", "allow", <<>>)
                /\ UNCHANGED <<db, nextUuid, nextOid, now>>
           ELSE IF r.method = "DELETE"
           THEN /\ db' = [db EXCEPT ![r.collection] = Remove(@, "id", r.eid)]
                /\ resp' = Respond("200", "allow", <<els[1]>>)
                /\ UNCHANGED <<nextUuid, nextOid, now>>
           ELSE IF r.method = "GET"
           THEN /\ resp' = Respond("200", "allow", <<els[1]>>)
                /\ UNCHANGED <<db, nextUuid, nextOid, now>>
           ELSE IF ~r.json
           THEN /\ resp' = Respond("415", "allow", <<>>)
                /\ UNCHANGED <<db, nextUuid, nextOid, now>>
           ELSE IF ~Has(r.body, "id")
           THEN /\ resp' = Respond("500", "allow", <<>>)
                /\ UNCHANGED <<db, nextUuid, nextOid, now>>
           ELSE IF r.body["id"] # els[1]["id"]
           THEN /\ resp' = Respond("409", "allow", <<>>)
                /\ UNCHANGED <<db, nextUuid, nextOid, now>>
           ELSE \E tt \in Readings5:
                  LET data == Put(r.body, "_id", els[1]["_id"])
                      nz == IF r.collection = "annotations"
                            THEN normalize_annotation(data, db.annotationtypes, nextUuid,
                                                      nextOid, tt)
                            ELSE [ok |-> TRUE, data |-> data, types |-> db.annotationtypes,
                                  used |-> 0, saved |-> 0]
                      cj == clean_json(nz.data, EmptyDict, nextUuid + nz.used, tt[4], tt[5])
                      d1 == [db EXCEPT !.annotationtypes = nz.types]
                  IN  IF ~nz.ok
                      THEN /\ resp' = Respond("500", "allow", <<>>)
                           /\ UNCHANGED <<db, nextUuid, nextOid, now>>
                      ELSE /\ db' = [d1 EXCEPT ![r.collection] =
                                        Save(@, cj.data, nextOid + nz.saved)]
                           /\ nextUuid' = nextUuid + nz.used + cj.used
                           /\ nextOid' = nextOid + nz.saved
                           /\ now' = tt[5]
                           /\ resp' = Respond("201", "allow", <<cj.data>>)

-----------------------------------------------------------------------------
(* The package listing: package_list, GET branch.                          *)

\* metadataserver.py:718-720: `for name, value in f.split(':')` unpacks every part
\* of every filter, which succeeds only for parts of exactly two characters
PartsOf(filters) ==
    LET RECURSIVE Cat(_)
        Cat(fs) == IF fs = <<>> THEN <<>> ELSE Split(Head(fs), ":") \o Cat(Tail(fs))
    IN  Cat(filters)

RECURSIVE PackageQuery(_, _)
PackageQuery(parts, qm) ==
    IF parts = <<>> THEN EmptyDict
    ELSE LET s == parts[Len(parts)]
         IN  Put(PackageQuery(SubSeq(parts, 1, Len(parts) - 1), qm),
                 Get(qm, SubSeq(s, 1, 1), SubSeq(s, 1, 1)), SubSeq(s, 2, 2))

\* the decorator of package_list (line 666)
PackageTargets == {"elements", "packages"}

PackageListGet(r) ==
    /\ r.endpoint = "package" /\ r.method = "GET"
    /\ req' = r
    /\ nreq' = nreq + 1
    /\ UNCHANGED <<db, APIKEYS, nextUuid, nextOid, now, imp, rl, rd, fx>>
    /\ IF ~check_access(APIKEYS, Credential(r), r.method, PackageTargets)
       THEN resp' = Respond("403", "deny", <<>>)
       ELSE IF \E k \in 1..Len(PartsOf(r.filters)): Len(PartsOf(r.filters)[k]) # 2
       THEN resp' = Respond("500", "allow", <<>>)
       ELSE LET qm == ("user" :> "meta.dc:contributor") @@ ("creator" :> "meta.dc:creator")
                found == FindQuery(db.packages, PackageQuery(PartsOf(r.filters), qm))
            IN  resp' = Respond("200", "allow",
                                [k \in 1..Len(found) |-> restore_json(found[k])])

-----------------------------------------------------------------------------
(* Key administration: key_list and key_get.                               *)

\* The `capabilities` of a request body: a JSON list of strings, a string, absent,
\* or some other JSON value (which the `key` schema rejects).
CapList(l) == [kind |-> "list", list |-> l, str |-> ""]
CapStr(s) == [kind |-> "str", list |-> <<>>, str |-> s]
CapAbsent == [kind |-> "absent", list |-> <<>>, str |-> ""]
CapInvalid == [kind |-> "invalid", list |-> <<>>, str |-> ""]

KeyBody(key, caps) == [haskey |-> TRUE, key |-> key, capabilities |-> caps]

\* truthiness of data.get('capabilities')
CapsTruthy(c) ==
    \/ c.kind = "list" /\ c.list # <<>>
    \/ c.kind = "str" /\ c.str # ""
    \/ c.kind = "invalid"

\* if isinstance(caps, basestring): caps = caps.split(",")
CapsAsList(c) == IF c.kind = "str" THEN Split(c.str, ",") ELSE c.list

KeyListTargets == {"admin", "keys"}

\* a variant of the decorator of key_get that also accepts the element token
KeyGetTargets_element == {"admin", "key", "element"}

\* the decorator of key_get (line 589)
KeyGetTargets == {"admin", "key"}

\* load_keys() run to its end
load_keys(apikeys) == KeyTable(apikeys)

\* a key handler's answer and its write to the apikeys collection, up to the call of
\* load_keys: reload tells whether load_keys is called
KeyEffect(status, gate, body, apikeys, oids, reload) ==
    [status |-> status, gate |-> gate, body |-> body, apikeys |-> apikeys, oids |-> oids,
     reload |-> reload]

KeyNoEffect(status, gate, body) == KeyEffect(status, gate, body, db.apikeys, 0, FALSE)

\* a variant of key_list that inserts without looking for the key
KeyListEffect_insert(tbl, r) ==
    IF ~check_access(tbl, Credential(r), r.method, KeyListTargets)
    THEN KeyNoEffect("403", "deny", <<>>)
    ELSE IF r.method = "GET"
    THEN KeyNoEffect("200", "allow", db.apikeys)
    ELSE IF ~(r.body.haskey /\ r.body.key # "" /\ CapsTruthy(r.body.capabilities))
    THEN KeyNoEffect("401", "allow", <<>>)
    ELSE IF r.body.capabilities.kind = "invalid"
    THEN KeyNoEffect("422", "allow", <<>>)
    ELSE LET data == [key |-> r.body.key, capabilities |-> CapsAsList(r.body.capabilities),
                      _id |-> ObjectId(nextOid + 1)]
         IN  KeyEffect("200", "allow", <<data>>, Append(db.apikeys, data), 1, TRUE)

\* metadataserver.py key_list, up to load_keys, on capability table tbl
KeyListEffect(tbl, r) ==
    IF ~check_access(tbl, Credential(r), r.method, KeyListTargets)
    THEN KeyNoEffect("403", "deny", <<>>)
    ELSE IF r.method = "GET"
    THEN KeyNoEffect("200", "allow", db.apikeys)
    ELSE IF ~(r.body.haskey /\ r.body.key # "" /\ CapsTruthy(r.body.capabilities))
    THEN KeyNoEffect("401", "allow", <<>>)
    ELSE IF Find(db.apikeys, "key", r.body.key) # <<>>
    THEN KeyNoEffect("409", "allow", <<>>)
    ELSE IF r.body.capabilities.kind = "invalid"
    THEN KeyNoEffect("422", "allow", <<>>)
    ELSE LET data == [key |-> r.body.key, capabilities |-> CapsAsList(r.body.capabilities),
                      _id |-> ObjectId(nextOid + 1)]
         IN  KeyEffect("200", "allow", <<data>>, Append(db.apikeys, data), 1, TRUE)

\* a variant of key_get that removes the key before the gate is asked
KeyGetEffect_late(tbl, r) ==
    LET els == Find(db.apikeys, "key", r.eid)
    IN  IF r.method = "DELETE" /\ els # <<>>
        THEN KeyEffect(IF check_access(tbl, Credential(r), r.method, KeyGetTargets)
                       THEN "200" ELSE "403",
                       IF check_access(tbl, Credential(r), r.method, KeyGetTargets)
                       THEN "allow" ELSE "deny",
                       <<>>, Remove(db.apikeys, "key", r.eid), 0, TRUE)
        ELSE IF ~check_access(tbl, Credential(r), r.method, KeyGetTargets)
        THEN KeyNoEffect("403", "deny", <<>>)
        ELSE KeyNoEffect("404", "allow", <<>>)

\* metadataserver.py key_get, up to load_keys, on capability table tbl
KeyGetEffect(tbl, r) ==
    LET els == Find(db.apikeys, "key", r.eid)
    IN  IF ~check_access(tbl, Credential(r), r.method, KeyGetTargets)
        THEN KeyNoEffect("403", "deny", <<>>)
        ELSE IF els = <<>>
        THEN KeyNoEffect("404", "allow", <<>>)
        ELSE IF r.method = "DELETE"
        THEN KeyEffect("200", "allow", <<els[1]>>, Remove(db.apikeys, "key", r.eid), 0, TRUE)
        ELSE IF r.method = "GET"
        THEN KeyNoEffect("200", "allow", <<els[1]>>)
        ELSE IF ~r.json
        THEN KeyNoEffect("415", "allow", <<>>)
        ELSE IF ~r.body.haskey
        THEN KeyNoEffect("500", "allow", <<>>)
        ELSE IF r.body.key # els[1].key
        THEN KeyNoEffect("409", "allow", <<>>)
        ELSE IF r.body.capabilities.kind = "absent"
        THEN KeyNoEffect("500", "allow", <<>>)
        ELSE IF r.body.capabilities.kind = "invalid"
        THEN KeyNoEffect("422", "allow", <<>>)
        ELSE LET data == [key |-> r.body.key,
                          capabilities |-> CapsAsList(r.body.capabilities),
                          _id |-> els[1]["_id"]]
             IN  KeyEffect("201", "allow", <<data>>, Save(db.apikeys, data, nextOid), 0, TRUE)

\* a key request served from its first line to its last with no other worker
\* running in between
KeyServe(r, e) ==
    /\ req' = r
    /\ nreq' = nreq + 1
    /\ resp' = Respond(e.status, e.gate, e.body)
    /\ db' = [db EXCEPT !.apikeys = e.apikeys]
    /\ nextOid' = nextOid + e.oids
    /\ APIKEYS' = IF e.reload THEN load_keys(e.apikeys) ELSE APIKEYS
    /\ UNCHANGED <<nextUuid, now, imp, rl, rd, fx>>

\* metadataserver.py key_list
KeyList(r) == r.endpoint = "keylist" /\ KeyServe(r, KeyListEffect(APIKEYS, r))

\* metadataserver.py key_get
KeyGet(r) == r.endpoint = "key" /\ KeyServe(r, KeyGetEffect(APIKEYS, r))

-----------------------------------------------------------------------------
(* Single requests against the gated endpoints: SpecAccess.                *)

Request(method, endpoint, collection, eid, cred, filters, json, body) ==
    [method |-> method, endpoint |-> endpoint, collection |-> collection, eid |-> eid,
     header |-> cred[1], param |-> cred[2], filters |-> filters, json |-> json,
     body |-> body]

\* one stored element per collection
StoredElements ==
    [EmptyStore EXCEPT
        !.medias = <<Stored(Media("media-A"), 1, 0)>>,
        !.annotationtypes = <<Stored(AType("type-A", "Note"), 2, 0)>>,
        !.annotations =
            <<[id |-> "anno-A", media |-> "media-A", _id |-> ObjectId(3),
               meta |-> ("id-ref" :> "type-A") @@ ("dc:created" :> "T0")
                        @@ ("dc:modified" :> "T0") @@ ("dc:creator" :> "alice")
                        @@ ("dc:contributor" :> "alice")]>>,
        !.packages = <<Put(Package("pack-A", MMRef("media-A")), "_id", ObjectId(4))>>,
        !.userinfo = <<[id |-> "user-A", login |-> "anonymous", _id |-> ObjectId(5)]>>]

\* the capabilities the client key "k" may have been given, the last two tables
\* also holding a record for the default key
AccessKeyTables ==
    { <<ApiKey("k", AdminCaps, 6)>>,
      <<ApiKey("k", <<"GETelements">>, 6)>>,
      <<ApiKey("k", <<"GETelements", "GETunfilteredelements">>, 6)>>,
      <<ApiKey("k", <<"GETelement">>, 6)>>,
      <<ApiKey("k", <<"DELETEelement">>, 6)>>,
      <<ApiKey("k", <<"GETannotations", "GETunfilteredannotations", "GETmedias",
                       "POSTannotations", "GETpackages">>, 6)>>,
      <<ApiKey("k", <<"DELETEannotation", "DELETEannotationtype", "PUTmedia", "GETuserinfo",
                       "DELETEpackage", "GETkey", "POSTkeys">>, 6)>>,
      <<ApiKey("k", <<"DELETEannotations", "DELETEmedias", "PUTpackages", "GETuserinfos",
                       "GETunfilteredelements", "elements", "GET">>, 6)>>,
      <<ApiKey("k", <<"GETelements">>, 6),
        ApiKey("default", <<"GETelements", "GETunfilteredelements", "DELETEelement">>, 7)>> }

\* how a request names its key: the header, nothing (the default key), a
\* parameter overriding the header, and the parameter `default`, which does not
AccessCredentials == {<<"k", "">>, <<"", "">>, <<"k", "ghost">>, <<"k", "default">>}

ElementEndpoint ==
    [annotations |-> "anno-A", annotationtypes |-> "type-A", medias |-> "media-A",
     userinfo |-> "user-A", packages |-> "pack-A"]

PostBody ==
    [annotations |-> [media |-> "media-A", type_title |-> "Tag", meta |-> EmptyDict],
     annotationtypes |-> ("dc:title" :> "Tag"),
     medias |-> [url |-> "v"],
     userinfo |-> [login |-> "bob"],
     packages |-> [main_media |-> MMRef("media-A")]]

AccessFilters == {<<>>, <<"user:alice">>, <<"nocolon">>}

AccessRequests ==
    {Request("GET", "list", c, "", k, f, FALSE, EmptyDict) :
        c \in Collections, k \in AccessCredentials, f \in AccessFilters}
    \cup {Request("POST", "list", c, "", k, <<>>, TRUE, PostBody[c]) :
        c \in Collections, k \in AccessCredentials}
    \cup {Request(m, "element", c, ElementEndpoint[c], k, <<>>, TRUE,
                  Put(PostBody[c], "id", ElementEndpoint[c])) :
        m \in {"GET", "PUT", "DELETE"}, c \in Collections, k \in AccessCredentials}
    \cup {Request("DELETE", "element", "medias", "media-Z", k, <<>>, FALSE, EmptyDict) :
        k \in AccessCredentials}
    \cup {Request("GET", "package", "packages", "", k, f, FALSE, EmptyDict) :
        k \in AccessCredentials, f \in {<<>>, <<"user:alice">>}}
    \cup {Request("GET", "keylist", "", "", k, <<>>, FALSE, KeyBody("", CapAbsent)) :
        k \in AccessCredentials}
    \cup {Request("POST", "keylist", "", "", k, <<>>, TRUE,
                  KeyBody("k2", CapStr("GETelements,GETelement"))) :
        k \in AccessCredentials}
    \cup {Request(m, "key", "", "k", k, <<>>, TRUE, KeyBody("k", CapList(<<"GETadmin">>))) :
        m \in {"GET", "PUT", "DELETE"}, k \in AccessCredentials}

InitAccess ==
    /\ db \in {[StoredElements EXCEPT !.apikeys = t] : t \in AccessKeyTables}
    /\ InitCommon

NextAccess ==
    \/ \E r \in AccessRequests: nreq < MaxRequests /\ ElementList(r)
    \/ \E r \in AccessRequests: nreq < MaxRequests /\ ElementGet(r)
    \/ \E r \in AccessRequests: nreq < MaxRequests /\ PackageListGet(r)
    \/ \E r \in AccessRequests: nreq < MaxRequests /\ KeyList(r)
    \/ \E r \in AccessRequests: nreq < MaxRequests /\ KeyGet(r)

SpecAccess == InitAccess /\ [][NextAccess]_vars

-----------------------------------------------------------------------------
(* Element writes by an administrator, one request after the other:        *)
(* SpecElements.                                                           *)

AdminCredential == <<"admin", "">>

ElementsStore == [StoredElements EXCEPT !.apikeys = <<ApiKey("admin", AdminCaps, 6)>>]

\* the JSON bodies of annotation writes: referring to a stored type, to no stored
\* type, carrying only a title (of a type not stored, of a stored type), carrying
\* neither, and without `meta`
AnnotationBodies ==
    { [media |-> "media-A", meta |-> ("id-ref" :> "type-A")],
      [media |-> "media-A", meta |-> ("id-ref" :> "type-Z")],
      [media |-> "media-A", type_title |-> "Tag", meta |-> EmptyDict],
      [media |-> "media-A", type_title |-> "Note", meta |-> EmptyDict],
      [media |-> "media-A", meta |-> EmptyDict],
      [media |-> "media-A", type_title |-> "Tag"] }

ElementBodies ==
    [annotations |-> AnnotationBodies,
     annotationtypes |-> {("dc:title" :> "Tag")},
     medias |-> {[url |-> "v"]},
     packages |-> {[main_media |-> MMRef("media-A")]}]

WrittenCollections == {"annotations", "annotationtypes", "medias", "packages"}

\* a body as it is, or with the id given
WithId(body, id) == IF id = "" THEN body ELSE Put(body, "id", id)

\* the body of ElementBodies[c] written with every id
FirstBody(c) ==
    IF c = "annotations" THEN [media |-> "media-A", meta |-> ("id-ref" :> "type-A")]
    ELSE CHOOSE b \in ElementBodies[c] : TRUE

\* POST of every body without id, and of one body with the id of the stored
\* element and with a short id
PostRequests(c) ==
    {Request("POST", "list", c, "", AdminCredential, <<>>, TRUE, WithId(b, id)) :
        <<b, id>> \in (ElementBodies[c] \X {""}) \cup ({FirstBody(c)} \X {ElementEndpoint[c], "n1"})}

\* PUT on the stored element of every body with the id of the path, of one body
\* with another id, without id and without JSON content type, and PUT on an
\* element that is not stored
PutRequests(c) ==
    {Request("PUT", "element", c, ElementEndpoint[c], AdminCredential, <<>>, TRUE,
             WithId(b, id)) :
        <<b, id>> \in (ElementBodies[c] \X {ElementEndpoint[c]})
                        \cup ({FirstBody(c)} \X {"", "other-1"})}
    \cup {Request("PUT", "element", c, ElementEndpoint[c], AdminCredential, <<>>, FALSE,
                  WithId(FirstBody(c), ElementEndpoint[c]))}
    \cup {Request("PUT", "element", c, "gone-1", AdminCredential, <<>>, TRUE,
                  WithId(FirstBody(c), "gone-1"))}

DeleteRequests(c) ==
    {Request("DELETE", "element", c, ElementEndpoint[c], AdminCredential, <<>>, FALSE,
             EmptyDict)}

ElementRequests ==
    UNION {PostRequests(c) \cup PutRequests(c) \cup DeleteRequests(c) : c \in WrittenCollections}

InitElements ==
    /\ db = ElementsStore
    /\ InitCommon

NextElements ==
    \/ \E r \in ElementRequests: nreq < MaxRequests /\ ElementList(r)
    \/ \E r \in ElementRequests: nreq < MaxRequests /\ ElementGet(r)

SpecElements == InitElements /\ [][NextElements]_vars

-----------------------------------------------------------------------------
(* Properties of the Bundle Importer, under SpecImport.                    *)

Completed(w) == imp[w].pc = "idle" /\ imp[w].status = "200"

CanonicalPackageId(b) == Has(Bundles[b].meta, "id") /\ Len(Bundles[b].meta["id"]) >= 4

C2_OneTypePerTitle ==
    /\ \A i, j \in 1..Len(db.annotationtypes):
          db.annotationtypes[i]["dc:title"] = db.annotationtypes[j]["dc:title"] => i = j
    /\ \A w \in Workers:
          imp[w].dedup # 0 =>
              LET at == BundleOf(w).types[imp[w].dedup]
              IN  /\ Has(imp[w].mapping, at["id"])
                  /\ \E d \in {db.annotationtypes[i] : i \in 1..Len(db.annotationtypes)}:
                        d["dc:title"] = at["dc:title"] /\ d["id"] = imp[w].mapping[at["id"]]

\* the second type of a bundle that carries the same title twice was found stored
C2_Witness ==
    \E w \in Workers:
        /\ imp[w].dedup = 2
        /\ BundleOf(w).types[1]["dc:title"] = BundleOf(w).types[2]["dc:title"]
        /\ Len(db.annotationtypes) >= 1

\* the stored ids of the bundle objects of `kind` whose bundle id is ref
StoredIdsOf(objs, ids, ref) ==
    {ids[i] : i \in {k \in 1..Len(objs) : k <= Len(ids) /\ Has(objs[k], "id") /\ objs[k]["id"] = ref}}

RefersInto(objs, ref) == \E k \in 1..Len(objs): Has(objs[k], "id") /\ objs[k]["id"] = ref

\* C9: after a completed import every Annotation persisted from the bundle has
\* `media` equal to the stored id of the bundle Media it referenced and
\* `meta.id-ref` equal to the stored id of the bundle AnnotationType it
\* referenced, and a Package persisted by the import has `main_media.id-ref`
\* equal to the stored id of the bundle Media it referenced.
ReferencesFollowStoredIds(w) ==
    LET b == BundleOf(w)
    IN  /\ \A j \in 1..Len(b.annotations):
              LET a == b.annotations[j]
                  s == imp[w].adocs[j]
              IN  /\ RefersInto(b.medias, a["media"]) =>
                        s["media"] \in StoredIdsOf(b.medias, imp[w].mids, a["media"])
                  /\ RefersInto(b.types, a["meta"]["id-ref"]) =>
                        s["meta"]["id-ref"] \in
                            StoredIdsOf(b.types, imp[w].tids, a["meta"]["id-ref"])
        /\ LET mm == WrapMainMedia(b.meta["main_media"])
           IN  ~imp[w].found /\ RefersInto(b.medias, mm.dict["id-ref"]) =>
                  imp[w].p["main_media"].dict["id-ref"] \in
                      StoredIdsOf(b.medias, imp[w].mids, mm.dict["id-ref"])

C9_ReferencesFollowStoredIds ==
    \A w \in Workers: Completed(w) => ReferencesFollowStoredIds(w)

\* the bundle ids that more than one object of the bundle carries
SharedIds(b) ==
    LET ids(objs) == {objs[k]["id"] : k \in {n \in 1..Len(objs) : Has(objs[n], "id")}}
    IN  (ids(b.medias) \cap ids(b.types)) \cup (ids(b.medias) \cap ids(b.annotations))
            \cup (ids(b.types) \cap ids(b.annotations))

\* C9 for the bundles whose objects carry pairwise different bundle ids
C9_Probe_NoSharedIds ==
    \A w \in Workers:
        Completed(w) /\ SharedIds(BundleOf(w)) = {} => ReferencesFollowStoredIds(w)

-----------------------------------------------------------------------------
(* Properties of the Access Gate, under SpecAccess.                        *)

\* the capability set of the key of the last request
CapsOf(r) == IF Credential(r) \in DOMAIN APIKEYS THEN APIKEYS[Credential(r)] ELSE {}

\* C3: on the generic listing endpoint, a GET without filter parameter by a key
\* that holds GETelements but neither GETunfilteredelements nor
\* GETunfiltered<collection> is answered 403; with GETelements and
\* GETunfilteredelements it is answered 200 with the whole collection; and a GET
\* with a filter parameter by a key holding GETelements is never answered 403, and
\* is answered 200 when the filters are of the form name:value.
C3_UnfilteredReadRule ==
    req.endpoint = "list" /\ req.method = "GET" =>
        /\ ( /\ req.filters = <<>>
             /\ "GETelements" \in CapsOf(req)
             /\ "GETunfilteredelements" \notin CapsOf(req)
             /\ ("GETunfiltered" \o req.collection) \notin CapsOf(req) )
           => resp.status = "403"
        /\ req.filters = <<>> /\ {"GETelements", "GETunfilteredelements"} \subseteq CapsOf(req)
           => resp.status = "200" /\ Len(resp.body) = Len(db[req.collection])
        /\ req.filters # <<>> /\ "GETelements" \in CapsOf(req)
           => /\ resp.status # "403"
              /\ FiltersWellFormed(req.filters) => resp.status = "200"

C3_Witness ==
    /\ req.endpoint = "list" /\ req.method = "GET" /\ req.filters = <<>>
    /\ CapsOf(req) = {"GETelements"}
    /\ resp.status = "403"

Singular ==
    [annotations |-> "annotation", annotationtypes |-> "annotationtype", medias |-> "media",
     userinfo |-> "userinfo", packages |-> "package"]

\* C4: the decorator of a collection endpoint lets the request through exactly
\* when the key holds <verb><collection> or <verb>elements, the decorator of an
\* element endpoint exactly when it holds <verb><collection without its final s>
\* or <verb>element; a request it stops is answered 403.
C4_GateIsDisjunction ==
    req.endpoint \in {"list", "element"} =>
        LET tokens == IF req.endpoint = "list" THEN {req.collection, "elements"}
                      ELSE {Singular[req.collection], "element"}
            required == {req.method \o t : t \in tokens}
        IN  /\ resp.gate = "allow" <=> CapsOf(req) \cap required # {}
            /\ resp.gate = "deny" <=> CapsOf(req) \cap required = {}
            /\ resp.gate = "deny" => resp.status = "403"

\* the key holds the token of the collection alone, not the generic one
C4_Witness ==
    /\ req.endpoint = "element" /\ req.method = "DELETE" /\ req.collection = "annotations"
    /\ "DELETEannotation" \in CapsOf(req) /\ "DELETEelement" \notin CapsOf(req)
    /\ resp.gate = "allow" /\ resp.status = "200"

\* C5: a DELETE on a single-element endpoint by a key holding DELETEelement is let
\* through (the element is removed, or 404 when there is none), and one by a key
\* whose only capability is GETelement is answered 403 and leaves the store as it
\* was.
C5_DeleteNeedsDeleteToken ==
    [][ req'.endpoint = "element" /\ req'.method = "DELETE" /\ nreq' = nreq + 1 =>
          LET caps == IF Credential(req') \in DOMAIN APIKEYS
                      THEN APIKEYS[Credential(req')] ELSE {}
              c == req'.collection
          IN  /\ "DELETEelement" \in caps =>
                    /\ resp'.status = (IF Find(db[c], "id", req'.eid) = <<>> THEN "404" ELSE "200")
                    /\ Find(db'[c], "id", req'.eid) = <<>>
              /\ caps = {"GETelement"} => resp'.status = "403" /\ db' = db ]_vars

C5_Witness ==
    /\ req.endpoint = "element" /\ req.method = "DELETE"
    /\ CapsOf(req) = {"DELETEelement"}
    /\ resp.status = "200" /\ db[req.collection] = <<>>

\* C8: a request whose key is not in the capability table is answered 403 by the
\* decorator, whatever the endpoint, the verb and the target, and changes nothing.
C8_UnknownKeyDenied ==
    [][ nreq' = nreq + 1 /\ Credential(req') \notin DOMAIN APIKEYS =>
          /\ resp'.status = "403" /\ resp'.gate = "deny"
          /\ db' = db /\ APIKEYS' = APIKEYS ]_vars

\* the default key, no record of which exists, was used
C8_Witness ==
    /\ req.endpoint = "list" /\ req.header = "" /\ req.param = ""
    /\ DEFAULT_KEY \notin DOMAIN APIKEYS
    /\ resp.status = "403"

-----------------------------------------------------------------------------
(* Key requests of two workers, load_keys running statement by statement:  *)
(* SpecReload.  A third worker checks capabilities in between.             *)

ReloadKeys ==
    <<ApiKey("admin", AdminCaps, 6), ApiKey("k", <<"GETelements", "GETelement">>, 7)>>

ReloadRequests ==
    {Request("DELETE", "key", "", "k", <<"admin", "">>, <<>>, FALSE, KeyBody("", CapAbsent)),
     Request("DELETE", "key", "", "k", <<"k", "">>, <<>>, FALSE, KeyBody("", CapAbsent)),
     Request("PUT", "key", "", "k", <<"admin", "">>, <<>>, TRUE,
             KeyBody("k", CapList(<<"GETelements", "DELETEelement">>))),
     Request("PUT", "key", "", "admin", <<"admin", "">>, <<>>, TRUE,
             KeyBody("admin", CapList(AdminCaps))),
     Request("POST", "keylist", "", "", <<"admin", "">>, <<>>, TRUE,
             KeyBody("k2", CapStr("GETelements")))}

\* what the third worker asks: the gate of a listing and the gate of a key listing
ReloadReads == {<<"k", {"GETannotations", "GETelements"}>>, <<"admin", {"GETadmin", "GETkeys"}>>}

InitReload ==
    /\ db = [StoredElements EXCEPT !.apikeys = ReloadKeys]
    /\ InitCommon

\* worker w serves a key request up to its call of load_keys (or to its end when
\* the handler does not get that far)
KeyStart(w, r) ==
    /\ rl[w].pc = "idle"
    /\ nreq < MaxReload
    /\ LET e == IF r.endpoint = "keylist" THEN KeyListEffect(APIKEYS, r)
                ELSE KeyGetEffect(APIKEYS, r)
       IN  /\ req' = r
           /\ nreq' = nreq + 1
           /\ db' = [db EXCEPT !.apikeys = e.apikeys]
           /\ nextOid' = nextOid + e.oids
           /\ IF e.reload
              THEN /\ rl' = [rl EXCEPT ![w] = [IdleReload EXCEPT !.pc = "reset", !.old = APIKEYS,
                                                                 !.status = e.status]]
                   /\ UNCHANGED resp
              ELSE /\ rl' = [rl EXCEPT ![w] = IdleReload]
                   /\ resp' = Respond(e.status, e.gate, e.body)
    /\ UNCHANGED <<APIKEYS, nextUuid, now, imp, rd, fx>>

\* metadataserver.py:196: APIKEYS = {}
LoadKeysReset(w) ==
    /\ rl[w].pc = "reset"
    /\ APIKEYS' = EmptyDict
    /\ rl' = [rl EXCEPT ![w].pc = "find"]
    /\ UNCHANGED <<db, nextUuid, nextOid, now, imp, req, resp, nreq, rd, fx>>

\* metadataserver.py:197: list(db['apikeys'].find())
LoadKeysFind(w) ==
    /\ rl[w].pc = "find"
    /\ rl' = [rl EXCEPT ![w].pc = "fill", ![w].cursor = db.apikeys, ![w].i = 1]
    /\ UNCHANGED <<db, APIKEYS, nextUuid, nextOid, now, imp, req, resp, nreq, rd, fx>>

\* metadataserver.py:198: one turn of the loop, writing into the table the global
\* name is bound to at that moment
LoadKeysFill(w) ==
    /\ rl[w].pc = "fill"
    /\ rl[w].i <= Len(rl[w].cursor)
    /\ LET k == rl[w].cursor[rl[w].i]
       IN  APIKEYS' = Put(APIKEYS, k["key"],
                          {k["capabilities"][i] : i \in 1..Len(k["capabilities"])})
    /\ rl' = [rl EXCEPT ![w].i = @ + 1]
    /\ UNCHANGED <<db, nextUuid, nextOid, now, imp, req, resp, nreq, rd, fx>>

\* the loop is over: load_keys returns and the handler answers
LoadKeysReturn(w) ==
    /\ rl[w].pc = "fill"
    /\ rl[w].i > Len(rl[w].cursor)
    /\ rl' = [rl EXCEPT ![w] = [IdleReload EXCEPT !.status = rl[w].status]]
    /\ resp' = Respond(rl[w].status, "allow", <<>>)
    /\ UNCHANGED <<db, APIKEYS, nextUuid, nextOid, now, imp, req, nreq, rd, fx>>

Reloading == {w \in Workers : rl[w].pc # "idle"}

\* check_capability(key, actions) in a worker that serves another request
ReadCapability(key, actions) ==
    /\ rd' = [key |-> key, actions |-> actions,
              granted |-> check_capability(APIKEYS, key, actions) # {},
              during |-> Reloading # {},
              before |-> \A w \in Reloading: check_capability(rl[w].old, key, actions) # {},
              after |-> check_capability(KeyTable(db.apikeys), key, actions) # {}]
    /\ UNCHANGED <<db, APIKEYS, nextUuid, nextOid, now, imp, req, resp, nreq, rl, fx>>

NextReload ==
    \/ \E w \in Workers, r \in ReloadRequests: KeyStart(w, r)
    \/ \E w \in Workers: LoadKeysReset(w)
    \/ \E w \in Workers: LoadKeysFind(w)
    \/ \E w \in Workers: LoadKeysFill(w)
    \/ \E w \in Workers: LoadKeysReturn(w)
    \/ \E q \in ReloadReads: ReadCapability(q[1], q[2])

SpecReload == InitReload /\ [][NextReload]_vars

\* C6: a check_capability made while load_keys runs in another worker grants a
\* capability that the key holds both in the table bound when the reload was
\* triggered and in the persisted records the reload loads.
C6_ReloadAtomicForReaders == rd.during /\ rd.before /\ rd.after => rd.granted

\* C7: whenever no key request is under way, the in-memory table maps exactly the
\* keys persisted in the apikeys collection to their capability sets.
C7_TableMatchesPersistedKeys ==
    Reloading = {} => APIKEYS = KeyTable(db.apikeys)

\* C7 for key requests served one after the other (SpecAccess): the table is the
\* persisted one after each of them.
C7_Sequential_TableMatchesPersistedKeys == APIKEYS = KeyTable(db.apikeys)

-----------------------------------------------------------------------------
(* The Identifier Assigner applied to single objects, in both revisions of *)
(* the server, with one mapping table passed along: SpecFixIds.            *)

\* objects handed to fix_ids: without id, with a short id, with a placeholder id
\* and with a stored identifier
FixObjects ==
    { EmptyDict,
      ("dc:title" :> "Note"),
      ("id" :> "a1"),
      ("id" :> "x1") @@ ("dc:title" :> "Tag"),
      ("id" :> "package1"),
      ("id" :> "abc"),
      ("id" :> "abcd"),
      ("id" :> Uuid(0)) }

InitFixIds ==
    /\ db = EmptyStore
    /\ InitCommon

\* one run of fix_ids, logged: whether it returned, the id it left on the object,
\* the object and the mapping table before and after, and whether the object was
\* the result of the run before
Logged(rev, data, r, mapping, again) ==
    [rev |-> rev, hadid |-> Has(data, "id"), ok |-> r.ok, id |-> Get(r.data, "id", ""),
     mapping0 |-> mapping, mapping |-> r.mapping, data0 |-> data, data |-> r.data,
     again |-> again]

SharedMapping == IF fx = <<>> THEN EmptyDict ELSE fx[Len(fx)].mapping

\* metadataserver.py fix_ids(data, mapping)
FixIds(data) ==
    /\ Len(fx) < MaxFix
    /\ LET r == fix_ids(data, SharedMapping, nextUuid)
       IN  /\ fx' = Append(fx, Logged("metadataserver", data, r, SharedMapping, FALSE))
           /\ nextUuid' = nextUuid + r.used
    /\ UNCHANGED <<db, APIKEYS, nextOid, now, imp, req, resp, nreq, rl, rd>>

\* metaserver.py fix_ids(data, mapping)
MetaserverFixIds(data) ==
    /\ Len(fx) < MaxFix
    /\ LET r == metaserver_fix_ids(data, SharedMapping, nextUuid)
       IN  /\ fx' = Append(fx, Logged("metaserver", data, r, SharedMapping, FALSE))
           /\ nextUuid' = nextUuid + r.used
    /\ UNCHANGED <<db, APIKEYS, nextOid, now, imp, req, resp, nreq, rl, rd>>

\* metadataserver.py fix_ids applied to the object its last run returned
FixIdsAgain ==
    /\ Len(fx) < MaxFix
    /\ fx # <<>>
    /\ fx[Len(fx)].rev = "metadataserver"
    /\ LET r == fix_ids(fx[Len(fx)].data, SharedMapping, nextUuid)
       IN  /\ fx' = Append(fx, Logged("metadataserver", fx[Len(fx)].data, r, SharedMapping, TRUE))
           /\ nextUuid' = nextUuid + r.used
    /\ UNCHANGED <<db, APIKEYS, nextOid, now, imp, req, resp, nreq, rl, rd>>

NextFixIds ==
    \/ \E data \in FixObjects: FixIds(data)
    \/ \E data \in FixObjects: MetaserverFixIds(data)
    \/ FixIdsAgain

SpecFixIds == InitFixIds /\ [][NextFixIds]_vars

\* C10: every run of fix_ids on an object without `id`, in either revision,
\* returns and leaves a non-empty id on the object and the mapping table as it
\* was; the ids so given are pairwise distinct.
C10_NoIdAlwaysAssigned ==
    /\ \A i \in 1..Len(fx):
          ~fx[i].hadid => fx[i].ok /\ fx[i].id # "" /\ fx[i].mapping = fx[i].mapping0
    /\ \A i, j \in 1..Len(fx):
          ~fx[i].hadid /\ ~fx[j].hadid /\ i # j => fx[i].id # fx[j].id

\* the same for the runs of the fix_ids of metadataserver.py alone
C10_Probe_CurrentRevision ==
    /\ \A i \in 1..Len(fx):
          fx[i].rev = "metadataserver" /\ ~fx[i].hadid
             => fx[i].ok /\ fx[i].id # "" /\ fx[i].mapping = fx[i].mapping0
    /\ \A i, j \in 1..Len(fx):
          /\ fx[i].rev = "metadataserver" /\ fx[j].rev = "metadataserver"
          /\ ~fx[i].hadid /\ ~fx[j].hadid /\ i # j
          => fx[i].id # fx[j].id

\* the ids handed out by the runs before run i
IdsBefore(i) == {fx[j].id : j \in 1..(i - 1)}

\* C11: a run of the fix_ids of metadataserver.py on an object whose id is shorter
\* than 4 characters leaves a fresh id on it, the old id under `mds:oldid` and
\* old -> new in the mapping, every other entry being kept; a run on the object
\* the run before returned changes neither the object nor the mapping.
C11_ShortIdReplacedOnce ==
    \A i \in 1..Len(fx):
        /\ ( /\ fx[i].rev = "metadataserver" /\ fx[i].hadid
             /\ Len(fx[i].data0["id"]) < 4 )
           => /\ fx[i].ok
              /\ fx[i].id # fx[i].data0["id"] /\ fx[i].id \notin IdsBefore(i)
              /\ Has(fx[i].data, "mds:oldid") /\ fx[i].data["mds:oldid"] = fx[i].data0["id"]
              /\ fx[i].mapping = Put(fx[i].mapping0, fx[i].data0["id"], fx[i].id)
        /\ fx[i].again
           => fx[i].ok /\ fx[i].data = fx[i].data0 /\ fx[i].mapping = fx[i].mapping0

\* a short id was replaced and fix_ids has run again on the result
C11_Witness ==
    /\ Len(fx) >= 2
    /\ fx[1].rev = "metadataserver" /\ fx[1].hadid /\ fx[1].data0["id"] = "abc"
    /\ fx[2].again /\ fx[2].data = fx[1].data

-----------------------------------------------------------------------------
(* Properties of the element writes, under SpecElements.                   *)

\* the last request was a write of an Annotation that the server accepted
AnnotationWritten(r, rs) ==
    /\ r.collection = "annotations"
    /\ \/ r.endpoint = "list" /\ r.method = "POST" /\ rs.status = "200"
       \/ r.endpoint = "element" /\ r.method = "PUT" /\ rs.status = "201"

\* the Annotation carries a `meta` without id-ref and a type title
OnlyTypeTitle(body) ==
    Has(body, "meta") /\ ~Has(body["meta"], "id-ref") /\ Has(body, "type_title")

\* the document of collection c stored under the store identifier of doc
StoredAs(c, doc) == Find(c, "_id", doc["_id"])

TypesReferredBy(a) ==
    IF Has(a, "meta") /\ Has(a["meta"], "id-ref")
    THEN Find(db.annotationtypes, "id", a["meta"]["id-ref"]) ELSE <<>>

\* C13: the Annotation stored by the last accepted POST or PUT has a meta.id-ref,
\* and exactly one stored AnnotationType has that id.
C13_AnnotationResolvesToOneType ==
    AnnotationWritten(req, resp) =>
        LET stored == StoredAs(db.annotations, resp.body[1])
        IN  /\ Len(stored) = 1
            /\ Has(stored[1]["meta"], "id-ref")
            /\ Len(TypesReferredBy(stored[1])) = 1

\* an Annotation written with a type title and no id-ref refers to a stored type
C13_Probe_TitledAnnotationResolves ==
    AnnotationWritten(req, resp) /\ OnlyTypeTitle(req.body) =>
        LET stored == StoredAs(db.annotations, resp.body[1])
        IN  Len(stored) = 1 /\ Len(TypesReferredBy(stored[1])) >= 1

\* the documents of sequence c that have no id or an empty one, and the ids held
\* by more than one document
WithoutId(c) == {k \in 1..Len(c) : ~Truthy(c[k], "id")}

SharedId(c) == {k \in 1..Len(c) : \E j \in 1..Len(c) : j # k /\ Has(c[k], "id") /\ Has(c[j], "id") /\ c[j]["id"] = c[k]["id"]}

\* C14: every object of medias, annotationtypes, annotations and packages has a
\* non-empty id, and no two objects of one collection have the same id.
C14_IdsUniquePerCollection ==
    \A c \in WrittenCollections: WithoutId(db[c]) = {} /\ SharedId(db[c]) = {}

\* every stored object has a non-empty id
C14_Probe_IdsPresent == \A c \in WrittenCollections: WithoutId(db[c]) = {}

-----------------------------------------------------------------------------
(* The Field Sanitizer followed by its inverse, on single objects:         *)
(* SpecRoundTrip.  fx is the log of the runs.                              *)

PROVENANCE_FIELDS == {"dc:created.contents", "dc:creator.contents"}

\* objects with the provenance fields in a `meta` sub-map (annotation, media), at
\* the top level (annotation type, package) and without them, with another dotted
\* field in `meta`, and with a provenance field beside `meta`; none uses the
\* underscore forms
RoundTripObjects ==
    { [id |-> "anno-A", media |-> "media-A",
       meta |-> ("id-ref" :> "type-A") @@ ("dc:created.contents" :> "c1")
                @@ ("dc:creator.contents" :> "alice")],
      [id |-> "anno-B", media |-> "media-A",
       meta |-> ("id-ref" :> "type-A") @@ ("dc:creator.contents" :> "bob")],
      [id |-> "media-A", url |-> "u", meta |-> ("dc:created.contents" :> "c2")],
      [id |-> "media-B", url |-> "u", meta |-> EmptyDict],
      ("id" :> "type-A") @@ ("dc:title" :> "Note") @@ ("dc:created.contents" :> "c1")
          @@ ("dc:creator.contents" :> "alice"),
      ("id" :> "type-B") @@ ("dc:title" :> "Tag") @@ ("dc:creator.contents" :> "bob"),
      ("id" :> "pack-A") @@ ("dc:created.contents" :> "c3"),
      ("id" :> "t1") @@ ("dc:title" :> "Idea"),
      [id |-> "media-C", url |-> "u", meta |-> ("dc:title.contents" :> "t")],
      ("id" :> "media-D") @@ ("url" :> "u") @@ ("dc:created.contents" :> "c4")
          @@ ("meta" :> EmptyDict) }

InitRoundTrip ==
    /\ db = EmptyStore
    /\ InitCommon

\* restore_json(clean_json(x)), as element_list computes its answer to a POST
\* (metadataserver.py:465-466)
RoundTrip(x) ==
    /\ Len(fx) < MaxFix
    /\ \E tt \in Readings:
          LET cj == clean_json(x, EmptyDict, nextUuid, tt[1], tt[2])
          IN  /\ fx' = Append(fx, [x |-> x, cleaned |-> cj.data,
                                   restored |-> restore_json(cj.data)])
              /\ nextUuid' = nextUuid + cj.used
              /\ now' = tt[2]
    /\ UNCHANGED <<db, APIKEYS, nextOid, imp, req, resp, nreq, rl, rd>>

NextRoundTrip == \E x \in RoundTripObjects: RoundTrip(x)

SpecRoundTrip == InitRoundTrip /\ [][NextRoundTrip]_vars

\* the provenance fields of x are those of y, with the same values
SameProvenance(x, y) ==
    \A n \in PROVENANCE_FIELDS:
        Has(MetaOf(x), n) => Has(MetaOf(y), n) /\ MetaOf(y)[n] = MetaOf(x)[n]

\* C15: restore_json(clean_json(x)) carries dc:created.contents and
\* dc:creator.contents under the same names and with the same values as x, in the
\* `meta` sub-map of x when it has one and at its top level otherwise.
C15_ProvenanceRoundTrip ==
    \A i \in 1..Len(fx): SameProvenance(fx[i].x, fx[i].restored)

\* the same for the objects that have a `meta` sub-map
C15_Probe_RoundTripInMeta ==
    \A i \in 1..Len(fx): Has(fx[i].x, "meta") => SameProvenance(fx[i].x, fx[i].restored)

-----------------------------------------------------------------------------
(* Properties of the package descriptor handling, under SpecImport.        *)

\* the import of worker w has passed the gate and has ended
Ended(w) == imp[w].pc = "idle" /\ imp[w].b # 0 /\ imp[w].status \in {"200", "500"}

\* the main_media of the bundle's package descriptor is absent, empty (null, {})
\* or the placeholder
MainMediaMissing(b) ==
    \/ ~Has(Bundles[b].meta, "main_media")
    \/ Bundles[b].meta["main_media"] \in
          {MMNull, MMDict(EmptyDict), MMRef("package1"), MMStr("package1")}

MainMediaAbsent(b) == ~Has(Bundles[b].meta, "main_media")

MainMediaIsString(b) ==
    Has(Bundles[b].meta, "main_media") /\ Bundles[b].meta["main_media"].kind = "str"

\* the Packages stored under the id the import answered
PackagesOf(w) == Find(db.packages, "id", imp[w].id)

\* C16: an import of a bundle with at least one Media whose main_media is the
\* placeholder, empty or absent completes, and the Package it stored refers, by a
\* plain identifier, to the stored id of the first Media of the bundle.
C16_DefaultsToFirstMedia ==
    \A w \in Workers:
        Ended(w) /\ MainMediaMissing(imp[w].b) /\ Bundles[imp[w].b].medias # <<>> =>
            /\ Completed(w)
            /\ PackagesOf(w) # <<>>
            /\ PackagesOf(w)[1]["main_media"] = MMRef(imp[w].mids[1])

\* C17: an import of a bundle with at least one Media whose package descriptor
\* omits main_media or gives it as a string completes, the Package is stored under
\* the id answered, and a string s is stored as the reference {id-ref: s'}, s'
\* being what the mapping makes of s.
C17_LegacyMainMediaTolerated ==
    \A w \in Workers:
        /\ Ended(w) /\ Bundles[imp[w].b].medias # <<>>
        /\ MainMediaAbsent(imp[w].b) \/ MainMediaIsString(imp[w].b)
        => /\ Completed(w)
           /\ PackagesOf(w) # <<>>
           /\ MainMediaIsString(imp[w].b) =>
                LET ref == Bundles[imp[w].b].meta["main_media"].str
                IN  imp[w].p["main_media"] = MMRef(Get(imp[w].mapping, ref, ref))

\* the same for the descriptors that give main_media as a string
C17_Probe_StringMainMediaWrapped ==
    \A w \in Workers:
        Ended(w) /\ Bundles[imp[w].b].medias # <<>> /\ MainMediaIsString(imp[w].b)
        => /\ Completed(w)
           /\ PackagesOf(w) # <<>>
           /\ LET ref == Bundles[imp[w].b].meta["main_media"].str
              IN  imp[w].p["main_media"] = MMRef(Get(imp[w].mapping, ref, ref))

\* C18: an import of a bundle without Media whose main_media is empty or the
\* placeholder ends in an error, the packages collection being as it was when
\* the request began, and every AnnotationType and Annotation of the bundle that
\* the earlier steps handled is in storage.
C18_NoMediaNoPackageNoRollback ==
    \A w \in Workers:
        /\ Ended(w) /\ Bundles[imp[w].b].medias = <<>>
        /\ ~MainMediaAbsent(imp[w].b) /\ MainMediaMissing(imp[w].b)
        => /\ imp[w].status = "500"
           /\ db.packages = imp[w].pkgs0
           /\ Len(imp[w].tids) = Len(Bundles[imp[w].b].types)
           /\ Len(imp[w].adocs) = Len(Bundles[imp[w].b].annotations)
           /\ \A k \in 1..Len(imp[w].tids): Count(db.annotationtypes, "id", imp[w].tids[k]) > 0
           /\ \A k \in 1..Len(imp[w].adocs):
                 Count(db.annotations, "id", imp[w].adocs[k]["id"]) > 0

\* such an import has ended, after storing an AnnotationType and an Annotation
C18_Witness ==
    \E w \in Workers:
        /\ Ended(w) /\ Bundles[imp[w].b].medias = <<>>
        /\ ~MainMediaAbsent(imp[w].b) /\ MainMediaMissing(imp[w].b)
        /\ imp[w].status = "500"
        /\ imp[w].adocs # <<>> /\ Count(db.annotations, "id", imp[w].adocs[1]["id"]) > 0
        /\ Count(db.annotationtypes, "dc:title", "Tag") > 0

-----------------------------------------------------------------------------
(* Properties of element PUT, under SpecElements.                          *)

\* the ids of the documents of sequence c, in order
IdsOf(c) == [k \in 1..Len(c) |-> Get(c[k], "id", "")]

\* C19: a PUT on a stored element whose JSON body carries another id than the path
\* is answered 409 and leaves the store as it was; after a PUT answered 201 the
\* collection holds exactly one object with the id of the path, under the store
\* identifier of the object found, and as many objects as before.
C19_PutKeepsIdentifier ==
    [][ nreq' = nreq + 1 /\ req'.endpoint = "element" /\ req'.method = "PUT" =>
          LET c      == req'.collection
              before == Find(db[c], "id", req'.eid)
              after  == Find(db'[c], "id", req'.eid)
          IN  /\ ( /\ before # <<>> /\ req'.json
                   /\ Has(req'.body, "id") /\ req'.body["id"] # req'.eid )
                 => resp'.status = "409" /\ db' = db
              /\ resp'.status = "201"
                 => /\ Len(after) = 1
                    /\ after[1]["_id"] = before[1]["_id"]
                    /\ Len(db'[c]) = Len(db[c]) ]_vars

\* a PUT answered 201 replaces the object found and changes the id of no object
C19_Probe_PutChangesNoId ==
    [][ nreq' = nreq + 1 /\ req'.endpoint = "element" /\ req'.method = "PUT" =>
          LET c      == req'.collection
              before == Find(db[c], "id", req'.eid)
          IN  /\ ( /\ before # <<>> /\ req'.json
                   /\ Has(req'.body, "id") /\ req'.body["id"] # req'.eid )
                 => resp'.status = "409" /\ db' = db
              /\ resp'.status = "201"
                 => /\ IdsOf(db'[c]) = IdsOf(db[c])
                    /\ StoredAs(db'[c], before[1]) # <<>>
                    /\ StoredAs(db'[c], before[1])[1]["id"] = req'.eid ]_vars

-----------------------------------------------------------------------------
(* Properties of the key administration, under SpecAccess.                 *)

\* the administrative tokens of the key endpoints, for the verb of the request
AdminTokens(r) ==
    IF r.endpoint = "keylist" THEN {r.method \o "admin", r.method \o "keys"}
    ELSE IF r.endpoint = "key" THEN {r.method \o "admin", r.method \o "key"}
    ELSE {}

\* C20: a request served changes the apikeys collection or the in-memory
\* capability table only when it is a request to api/key/ or api/key/<k> whose
\* key holds <VERB>admin or <VERB>keys (resp. <VERB>key); a key request whose key
\* holds neither is answered 403.
C20_KeysChangeOnlyByAdmin ==
    [][ nreq' = nreq + 1 =>
          LET caps == IF Credential(req') \in DOMAIN APIKEYS
                      THEN APIKEYS[Credential(req')] ELSE {}
          IN  /\ db'.apikeys # db.apikeys \/ APIKEYS' # APIKEYS
                 => caps \cap AdminTokens(req') # {}
              /\ req'.endpoint \in {"keylist", "key"} /\ caps \cap AdminTokens(req') = {}
                 => resp'.status = "403" ]_vars

\* a key holding GETkey and POSTkeys but not PUTkey was refused a PUT on a stored
\* key record
C20_Witness ==
    /\ req.endpoint = "key" /\ req.method = "PUT"
    /\ {"GETkey", "POSTkeys"} \subseteq CapsOf(req)
    /\ resp.status = "403"
    /\ Find(db.apikeys, "key", req.eid) # <<>>

-----------------------------------------------------------------------------
(* An element from creation to deletion, by an administrator:              *)
(* SpecLifecycle.                                                          *)

\* the JSON bodies of Media writes: the url alone, with stamps supplied, with an
\* empty stamp, with a `meta` carrying a stamp and a dotted field, with a unit and
\* a duration, and with a unit alone
MediaBodies ==
    { [url |-> "v"],
      ("url" :> "v") @@ ("dc:created" :> "T9") @@ ("dc:modified" :> "T8"),
      ("url" :> "v") @@ ("dc:created" :> ""),
      [url |-> "v", meta |-> ("dc:created" :> "T9") @@ ("dc:creator.contents" :> "x")],
      ("url" :> "v") @@ ("unit" :> "ms") @@ (FRAME_OF_REFERENCE :> "o=0")
          @@ ("meta" :> ("dc:duration" :> 10)),
      [url |-> "v", unit |-> "ms"] }

\* the ids requests name: of the stored element, and the first one generated
LifecycleIds == [medias |-> {"media-A", Uuid(1)}, annotations |-> {"anno-A"}]

LifecycleRequests ==
    {Request("POST", "list", "medias", "", AdminCredential, <<>>, TRUE, b) :
        b \in MediaBodies \cup {[id |-> "media-A", url |-> "w"]}}
    \cup {Request(m, "element", c, e, AdminCredential, <<>>, TRUE,
                  WithId(FirstBody(c), e)) :
            <<m, c, e>> \in {x \in {"GET", "PUT", "DELETE"} \X {"medias", "annotations"}
                                     \X {"media-A", Uuid(1), "anno-A"} :
                                x[3] \in LifecycleIds[x[2]]}}

InitLifecycle ==
    /\ db = ElementsStore
    /\ InitCommon

NextLifecycle ==
    \/ \E r \in LifecycleRequests: nreq < MaxRequests /\ ElementList(r)
    \/ \E r \in LifecycleRequests: nreq < MaxRequests /\ ElementGet(r)

SpecLifecycle == InitLifecycle /\ [][NextLifecycle]_vars

-----------------------------------------------------------------------------
(* Properties of the creation of a Media, under SpecLifecycle.             *)

MediaPostWithoutId(r) ==
    /\ r.method = "POST" /\ r.endpoint = "list" /\ r.collection = "medias"
    /\ ~Has(r.body, "id")

GetOfCreated(r, q, rs) ==
    /\ MediaPostWithoutId(q) /\ rs.status = "200"
    /\ r.method = "GET" /\ r.endpoint = "element" /\ r.collection = "medias"
    /\ r.eid = rs.body[1]["id"]

Stamps == {"dc:created", "dc:modified"}

\* the object answered by a POST, then the GET of its id: created with a new id
\* and the stamps supplied, and read back as answered
CreatedThenRead(bodies) ==
        nreq' = nreq + 1 =>
          /\ MediaPostWithoutId(req') /\ req'.body \in bodies
             => /\ resp'.status = "200"
                /\ Get(resp'.body[1], "id", "") # ""
                /\ \A c \in Collections: Find(db[c], "id", resp'.body[1]["id"]) = <<>>
                /\ LET el == Find(db'.medias, "id", resp'.body[1]["id"])
                   IN  /\ Len(el) = 1
                       /\ \A n \in Stamps:
                            Truthy(MetaOf(req'.body), n)
                               => MetaOf(el[1])[n] = MetaOf(req'.body)[n]
          /\ GetOfCreated(req', req, resp) /\ req.body \in bodies
             => /\ resp'.status = "200"
                /\ DOMAIN resp'.body[1] = DOMAIN resp.body[1]
                /\ resp'.body[1] = resp.body[1]
                /\ \A n \in Stamps: Truthy(MetaOf(resp'.body[1]), n)

\* C21: a POST of a Media without id on the media collection is answered with the
\* object under a newly generated id, a non-empty dc:created or dc:modified of the
\* body being stored as supplied; a GET of that id right after returns the same
\* object, with dc:created and dc:modified populated.
C21_CreatedMediaReadBack == [][CreatedThenRead(MediaBodies)]_vars

\* the same for the Media bodies without `meta` and without `unit`
C21_Probe_PlainMediaReadBack ==
    [][CreatedThenRead({b \in MediaBodies : ~Has(b, "meta") /\ ~Has(b, "unit")})]_vars

-----------------------------------------------------------------------------
(* Properties of the field names clean_json hands to the store, under      *)
(* SpecRoundTrip.                                                          *)

\* the name holds a dot, which the store does not accept in field names
Dotted(name) == \E k \in 1..Len(name): SubSeq(name, k, k) = "."

\* the field names of an object, at the top level and inside `meta`
FieldNames(data) ==
    DOMAIN data \cup (IF Has(data, "meta") THEN DOMAIN data["meta"] ELSE {})

\* C22: no field name of an object that went through clean_json holds a dot, at
\* the top level or inside `meta`, whatever the name is.
C22_NoDottedNamePersisted ==
    \A i \in 1..Len(fx): \A name \in FieldNames(fx[i].cleaned): ~Dotted(name)

\* the two provenance names are renamed where clean_json looks for them: in
\* `meta` when the object has one, else at the top level
C22_Probe_ProvenanceNamesRenamed ==
    \A i \in 1..Len(fx): \A n \in PROVENANCE_FIELDS:
        /\ ~Has(MetaOf(fx[i].cleaned), n)
        /\ Has(MetaOf(fx[i].x), n)
           => \E u \in DOMAIN MetaOf(fx[i].cleaned):
                 ~Dotted(u) /\ MetaOf(fx[i].cleaned)[u] = MetaOf(fx[i].x)[n]

-----------------------------------------------------------------------------
(* Properties of the remapping table of one import, under SpecImport.      *)

\* C23: within one import, an entry of the remapping table is never changed: a
\* later object of the bundle carrying an old id that has an entry leaves the
\* entry as the first object wrote it.
C23_MappingFirstWriterWins ==
    [][ \A old \in DOMAIN imp[1].mapping:
          Has(imp'[1].mapping, old) => imp'[1].mapping[old] = imp[1].mapping[old] ]_vars

\* within one import, no entry of the remapping table is removed
C23_Probe_MappingGrows ==
    [][ imp'[1].pc # "idle" /\ imp[1].pc # "idle"
          => \A old \in DOMAIN imp[1].mapping: Has(imp'[1].mapping, old) ]_vars

-----------------------------------------------------------------------------
(* The Annotation Normalizer on single annotations: SpecNormalize.  fx is  *)
(* the log of the runs.                                                    *)

\* annotations whose `meta` is empty, carries both legacy fields, one of them, the
\* canonical fields, part of them, or both kinds; with a type title; without `meta`
NormalizeObjects ==
    { [media |-> "media-A", meta |-> EmptyDict],
      [media |-> "media-A", meta |-> [created |-> "c1", creator |-> "alice"]],
      [media |-> "media-A", meta |-> [created |-> "c1"]],
      [media |-> "media-A", meta |-> [creator |-> "alice"]],
      [media |-> "media-A", meta |-> ("dc:created" :> "T9") @@ ("dc:creator" :> "bob")],
      [media |-> "media-A", meta |-> ("dc:creator" :> "bob") @@ ("dc:modified" :> "T8")],
      [media |-> "media-A",
       meta |-> ("created" :> "c1") @@ ("creator" :> "alice") @@ ("dc:created" :> "T9")],
      [media |-> "media-A", type_title |-> "Tag", meta |-> EmptyDict],
      [media |-> "media-A", type_title |-> "Tag"] }

InitNormalize ==
    /\ db = ElementsStore
    /\ InitCommon

\* normalize_annotation(x), as element_list and element_get call it
\* (metadataserver.py:463-464, 527-529)
Normalize(x) ==
    /\ Len(fx) < MaxFix
    /\ \E tt \in Readings5:
          LET nz == normalize_annotation(x, db.annotationtypes, nextUuid, nextOid, tt)
          IN  /\ fx' = Append(fx, [x |-> x, ok |-> nz.ok, data |-> nz.data])
              /\ db' = [db EXCEPT !.annotationtypes = nz.types]
              /\ nextUuid' = nextUuid + nz.used
              /\ nextOid' = nextOid + nz.saved
              /\ now' = tt[3]
    /\ UNCHANGED <<APIKEYS, imp, req, resp, nreq, rl, rd>>

NextNormalize == \E x \in NormalizeObjects: Normalize(x)

SpecNormalize == InitNormalize /\ [][NextNormalize]_vars

\* the annotation has a `meta` with neither `created` nor `dc:created`
Unstamped(x) ==
    Has(x, "meta") /\ ~Has(x["meta"], "created") /\ ~Has(x["meta"], "dc:created")

\* the annotation has a `meta` with the legacy field `created`
Legacy(x) == Has(x, "meta") /\ Has(x["meta"], "created")

\* the field names of meta after the run that were not there before
AddedNames(e) == DOMAIN e.data["meta"] \ DOMAIN e.x["meta"]

\* C24: normalize_annotation on an annotation whose meta has neither `created` nor
\* `dc:created` succeeds and leaves meta with dc:created and dc:modified set to
\* the same timestamp, dc:creator and dc:contributor both `system`, and no field
\* name added beside these four (and the id-ref of a type title).
C24_DefaultsStamped ==
    \A i \in 1..Len(fx): Unstamped(fx[i].x) =>
        LET e == fx[i]
            m == e.data["meta"]
        IN  /\ e.ok
            /\ Has(m, "dc:created") /\ Has(m, "dc:modified")
            /\ m["dc:created"] = m["dc:modified"]
            /\ Get(m, "dc:creator", "") = "system"
            /\ Get(m, "dc:contributor", "") = "system"
            /\ AddedNames(e) \subseteq
                  {"dc:created", "dc:modified", "dc:creator", "dc:contributor", "id-ref"}

\* what the run does write: the two stamps, equal, and the contributor `system`
C24_Probe_StampsAndContributor ==
    \A i \in 1..Len(fx): Unstamped(fx[i].x) =>
        LET e == fx[i]
            m == e.data["meta"]
        IN  /\ e.ok
            /\ Has(m, "dc:created") /\ Has(m, "dc:modified")
            /\ m["dc:created"] = m["dc:modified"]
            /\ Get(m, "dc:contributor", "") = "system"
            /\ AddedNames(e) \subseteq
                  {"dc:created", "dc:modified", "dc: creator", "dc:contributor", "id-ref"}

\* C25: normalize_annotation on an annotation whose meta carries `created`
\* succeeds, with dc:created and dc:modified equal to `created`, dc:creator and
\* dc:contributor equal to `creator` when there is one, and neither `created` nor
\* `creator` left in meta.
C25_LegacyMigrated ==
    \A i \in 1..Len(fx): Legacy(fx[i].x) =>
        LET e == fx[i]
            m == e.data["meta"]
            o == e.x["meta"]
        IN  /\ e.ok
            /\ Get(m, "dc:created", "") = o["created"]
            /\ Get(m, "dc:modified", "") = o["created"]
            /\ Has(o, "creator")
               => Get(m, "dc:creator", "") = o["creator"]
                  /\ Get(m, "dc:contributor", "") = o["creator"]
            /\ ~Has(m, "created") /\ ~Has(m, "creator")

\* the same when both legacy fields are present
C25_Probe_BothLegacyMigrated ==
    \A i \in 1..Len(fx): Legacy(fx[i].x) /\ Has(fx[i].x["meta"], "creator") =>
        LET e == fx[i]
            m == e.data["meta"]
            o == e.x["meta"]
        IN  /\ e.ok
            /\ Get(m, "dc:created", "") = o["created"]
            /\ Get(m, "dc:modified", "") = o["created"]
            /\ Get(m, "dc:creator", "") = o["creator"]
            /\ Get(m, "dc:contributor", "") = o["creator"]
            /\ ~Has(m, "created") /\ ~Has(m, "creator")

-----------------------------------------------------------------------------
(* Listings of a store that holds several elements: SpecListing.           *)

ListedAnnotation(id, media, type, user, oid) ==
    [id |-> id, media |-> media, _id |-> ObjectId(oid),
     meta |-> ("id-ref" :> type) @@ ("dc:created" :> "T0") @@ ("dc:modified" :> "T0")
              @@ ("dc:creator" :> user) @@ ("dc:contributor" :> user)]

ListingStore ==
    [EmptyStore EXCEPT
        !.medias = <<Stored(Media("media-A"), 1, 0), Stored(Media("media-B"), 2, 0)>>,
        !.annotationtypes = <<Stored(AType("type-A", "Note"), 3, 0),
                              Stored(AType("type-B", "Tag"), 4, 0)>>,
        !.annotations = <<ListedAnnotation("anno-A", "media-A", "type-A", "alice", 5),
                          ListedAnnotation("anno-B", "media-A", "type-B", "bob", 6),
                          ListedAnnotation("anno-C", "media-B", "type-A", "alice", 7),
                          ListedAnnotation("anno-D", "media-B", "type-B", "alice", 8)>>,
        !.packages = <<Put(Package("pack-A", MMRef("media-A")), "_id", ObjectId(9)),
                       Put(Package("pack-B", MMRef("media-B")), "_id", ObjectId(10))>>,
        !.userinfo = <<[id |-> "user-A", login |-> "anonymous", _id |-> ObjectId(11)]>>]

\* the capabilities the client key "k" may have been given: the basic read token,
\* with the unfiltered-read token, and tokens of single collections
ListingKeyTables ==
    { <<ApiKey("k", <<"GETelements">>, 12)>>,
      <<ApiKey("k", <<"GETelements", "GETunfilteredelements">>, 12)>>,
      <<ApiKey("k", <<"GETannotations", "GETpackages", "GETunfilteredmedias">>, 12)>>,
      <<ApiKey("k", <<"GETannotations", "GETunfilteredannotations", "GETpackages",
                       "GETunfilteredpackages">>, 12)>> }

\* filter parameters: none, one, several on different fields, two on the same
\* field, a name outside the query maps, a value that holds a colon
ListingFilters ==
    { <<>>, <<"user:alice">>, <<"type:type-A">>, <<"media:media-A">>,
      <<"type:type-A", "media:media-B">>, <<"media:media-B", "type:type-B", "user:alice">>,
      <<"user:alice", "user:bob">>, <<"type:type-B", "type:type-B">>,
      <<"foo:bar">>, <<"url:http://u">> }

ListingRequests ==
    {Request("GET", "list", c, "", <<"k", "">>, f, FALSE, EmptyDict) :
        c \in Collections, f \in ListingFilters}
    \cup {Request("GET", "package", "packages", "", <<"k", "">>, f, FALSE, EmptyDict) :
        f \in {<<>>, <<"user:alice">>, <<"ab">>}}

InitListing ==
    /\ db \in {[ListingStore EXCEPT !.apikeys = t] : t \in ListingKeyTables}
    /\ InitCommon

NextListing ==
    \/ \E r \in ListingRequests: nreq < MaxRequests /\ ElementList(r)
    \/ \E r \in ListingRequests: nreq < MaxRequests /\ PackageListGet(r)

SpecListing == InitListing /\ [][NextListing]_vars

-----------------------------------------------------------------------------
(* Properties of the listings, under SpecListing.                          *)

\* the request is a GET on a listing endpoint
Listing(r) == r.method = "GET" /\ r.endpoint \in {"list", "package"}

\* the key of the request holds a token for reading the collection
HoldsRead(r) ==
    {"GETelements", "GET" \o r.collection} \cap CapsOf(r) # {}

\* the key of the request holds a token for reading the collection unfiltered
HoldsUnfiltered(r) ==
    {"GETunfilteredelements", "GETunfiltered" \o r.collection} \cap CapsOf(r) # {}

\* the name of a filter parameter: what stands before the first colon
FilterName(f) == Split(f, ":")[1]

\* no filter of the request has a name of the collection's query map, so that the
\* storage query is empty
EmptyQuery(r) ==
    \A k \in 1..Len(r.filters): ~Has(QueryMap(r.collection), FilterName(r.filters[k]))

\* C26: a GET on the generic listing whose storage query is empty (no filter
\* parameter, or only filter parameters with names outside the collection's query
\* map), by a key that holds no unfiltered-read token, is denied.
C26_EmptyQueryDenied ==
    req.endpoint = "list" /\ req.method = "GET" /\ EmptyQuery(req) /\ ~HoldsUnfiltered(req)
        => resp.status = "403"

\* the same for the requests without any filter parameter
C26_Probe_NoFilterDenied ==
    req.endpoint = "list" /\ req.method = "GET" /\ req.filters = <<>> /\ ~HoldsUnfiltered(req)
        => resp.status = "403"

\* C27: a GET without filter parameter on the package listing or on a generic
\* listing, by a key that holds a read token of the collection and no
\* unfiltered-read token, is denied.
C27_UnfilteredRuleOnEveryListing ==
    Listing(req) /\ req.filters = <<>> /\ HoldsRead(req) /\ ~HoldsUnfiltered(req)
        => resp.status = "403"

\* the same for the generic listings alone
C27_Probe_GenericListings ==
    ( /\ Listing(req) /\ req.endpoint = "list" /\ req.filters = <<>>
      /\ HoldsRead(req) /\ ~HoldsUnfiltered(req) )
        => resp.status = "403"

\* the stored objects of collection c that match every filter, each name mapped
\* through the query map of c
MatchingEvery(c, filters) ==
    SelectSeq(db[c], LAMBDA d:
        \A k \in 1..Len(filters):
            LET nv == Split(filters[k], ":")
            IN  MatchesPath(d, QueryMap(c)[nv[1]], nv[2]))

\* the filters are of the form name:value, with names of the query map of c
Mapped(c, filters) ==
    /\ filters # <<>> /\ FiltersWellFormed(filters)
    /\ \A k \in 1..Len(filters): Has(QueryMap(c), FilterName(filters[k]))

\* the store identifiers of a list of documents
StoreIdsOf(l) == [k \in 1..Len(l) |-> l[k]["_id"]]

\* C28: a GET on the generic listing with filters name:value, every name in the
\* query map of the collection, by a key that passes the gate, returns exactly the
\* stored objects of the collection that match every filter.
C28_FilteredListingExact ==
    ( /\ req.endpoint = "list" /\ req.method = "GET" /\ resp.gate = "allow"
      /\ Mapped(req.collection, req.filters) )
        => /\ resp.status = "200"
           /\ StoreIdsOf(resp.body) = StoreIdsOf(MatchingEvery(req.collection, req.filters))

\* no two filters of the request have the same name
DistinctNames(filters) ==
    \A j, k \in 1..Len(filters): j # k => FilterName(filters[j]) # FilterName(filters[k])

\* the same for requests that name every filter once
C28_Probe_DistinctFilters ==
    ( /\ req.endpoint = "list" /\ req.method = "GET" /\ resp.gate = "allow"
      /\ Mapped(req.collection, req.filters) /\ DistinctNames(req.filters) )
        => /\ resp.status = "200"
           /\ StoreIdsOf(resp.body) = StoreIdsOf(MatchingEvery(req.collection, req.filters))

-----------------------------------------------------------------------------
(* Every gated endpoint, one request after the other: SpecGate.            *)

GateStore ==
    [StoredElements EXCEPT
        !.apikeys = <<ApiKey("admin", AdminCaps, 6), ApiKey("reader", <<"GETelements">>, 7)>>]

\* the administrator, a key that may only read, and a key that is not stored
GateCredentials == {<<"admin", "">>, <<"reader", "">>, <<"ghost", "">>}

GateCollections == {"medias", "annotations"}

GateBundles == {1, 4}

GateRequests ==
    {Request(m, "list", c, "", k, <<>>, TRUE, PostBody[c]) :
        m \in {"GET", "POST"}, c \in GateCollections, k \in GateCredentials}
    \cup {Request(m, "element", c, ElementEndpoint[c], k, <<>>, TRUE,
                  Put(PostBody[c], "id", ElementEndpoint[c])) :
        m \in {"GET", "PUT", "DELETE"}, c \in GateCollections, k \in GateCredentials}
    \cup {Request("GET", "package", "packages", "", k, <<>>, FALSE, EmptyDict) :
        k \in GateCredentials}
    \cup {Request("GET", "keylist", "", "", k, <<>>, FALSE, KeyBody("", CapAbsent)) :
        k \in GateCredentials}
    \cup {Request("POST", "keylist", "", "", k, <<>>, TRUE,
                  KeyBody("k2", CapStr("GETelements,GETelement"))) :
        k \in GateCredentials}
    \cup {Request(m, "key", "", "reader", k, <<>>, TRUE,
                  KeyBody("reader", CapList(<<"GETadmin">>))) :
        m \in {"GET", "PUT", "DELETE"}, k \in GateCredentials}

InitGate ==
    /\ db = GateStore
    /\ InitCommon

\* no import is under way
NoImport == imp[1].pc = "idle"

\* one request is handled to its end before the next starts
NextGate ==
    \/ \E r \in GateRequests: nreq < MaxRequests /\ NoImport /\ ElementList(r)
    \/ \E r \in GateRequests: nreq < MaxRequests /\ NoImport /\ ElementGet(r)
    \/ \E r \in GateRequests: nreq < MaxRequests /\ NoImport /\ PackageListGet(r)
    \/ \E r \in GateRequests: nreq < MaxRequests /\ NoImport /\ KeyList(r)
    \/ \E r \in GateRequests: nreq < MaxRequests /\ NoImport /\ KeyGet(r)
    \/ \E b \in GateBundles, c \in GateCredentials: StartImport(1, b, c[1], c[2])
    \/ ImportMediaFind(1)
    \/ ImportMediaSave(1)
    \/ ImportTypeFind(1)
    \/ ImportTypeSave(1)
    \/ ImportAnnotation(1)
    \/ ImportPackage(1)
    \/ ImportPackageSave(1)

SpecGate == InitGate /\ [][NextGate]_vars

\* the step is a request to an element or key endpoint that the gate refuses
DeniedRequest == nreq' = nreq + 1 /\ imp' = imp /\ resp'.gate = "deny"

\* the step is a bundle import that the gate refuses
DeniedImport == nreq' = nreq + 1 /\ imp' # imp /\ imp'[1].status = "403"

\* C29: a request that the Access Gate refuses, on the element endpoints, the
\* bundle import or the key administration, changes no collection and not the
\* capability table, draws no identifier, and is over with the refusal.
C29_DeniedRequestHasNoEffect ==
    [][ DeniedRequest \/ DeniedImport
          => /\ db' = db /\ APIKEYS' = APIKEYS
             /\ nextUuid' = nextUuid /\ nextOid' = nextOid
             /\ resp'.body = <<>> \/ imp' # imp
             /\ imp'[1].pc = "idle" ]_vars

\* an import was refused and then a DELETE of a stored key was refused, the store
\* and the capability table being as they were at the start
C29_Witness ==
    /\ imp[1].status = "403"
    /\ resp.gate = "deny" /\ req.method = "DELETE" /\ req.endpoint = "key"
    /\ Find(db.apikeys, "key", req.eid) # <<>>
    /\ db = GateStore

-----------------------------------------------------------------------------
(* Properties of the deletion of an element, under SpecLifecycle.          *)

\* the step serves a request on a single element
ElementStep == nreq' = nreq + 1 /\ req'.endpoint = "element"

\* C30: a DELETE answered 200 leaves no object with the id of the path in the
\* collection, and every other object of every collection as it was; a GET, PUT or
\* DELETE of an id that no object of the collection has is answered 404 and
\* changes nothing.
C30_DeleteRemovesOnlyTheElement ==
    [][ ElementStep =>
          LET c == req'.collection
              e == req'.eid
          IN  /\ req'.method = "DELETE" /\ resp'.status = "200"
                 => /\ Find(db[c], "id", e) # <<>>
                    /\ Find(db'[c], "id", e) = <<>>
                    /\ db'[c] = SelectSeq(db[c], LAMBDA d: Get(d, "id", "") # e)
                    /\ \A o \in DOMAIN db: o # c => db'[o] = db[o]
                    /\ APIKEYS' = APIKEYS
              /\ Find(db[c], "id", e) = <<>>
                 => resp'.status = "404" /\ db' = db /\ APIKEYS' = APIKEYS ]_vars

\* media-A was deleted, the annotation and the package that refer to it are
\* stored as before, and a request on media-A was answered 404
C30_Witness ==
    /\ req.endpoint = "element" /\ req.collection = "medias" /\ req.eid = "media-A"
    /\ resp.status = "404"
    /\ Find(db.medias, "id", "media-A") = <<>>
    /\ db.annotations = ElementsStore.annotations
    /\ db.packages = ElementsStore.packages

-----------------------------------------------------------------------------
(* Key administration by an administrator, one request after the other:    *)
(* SpecKeys.                                                               *)

KeysStore ==
    [EmptyStore EXCEPT
        !.apikeys = <<ApiKey("admin", AdminCaps, 6), ApiKey("k", <<"GETelements">>, 7)>>]

KeyNames == {"k", "k2"}

\* the bodies of key writes: capabilities as a list, as a string, absent, of
\* another JSON type
KeyBodies ==
    {KeyBody(k, c) : k \in KeyNames,
                     c \in {CapList(<<"GETelement">>), CapStr("GETelements,GETelement"),
                            CapAbsent, CapInvalid}}

KeyRequests ==
    {Request("POST", "keylist", "", "", AdminCredential, <<>>, TRUE, b) : b \in KeyBodies}
    \cup {Request("GET", "keylist", "", "", AdminCredential, <<>>, FALSE,
                  KeyBody("", CapAbsent))}
    \cup {Request("PUT", "key", "", k, AdminCredential, <<>>, TRUE, b) :
            k \in KeyNames, b \in KeyBodies}
    \cup {Request(m, "key", "", k, AdminCredential, <<>>, FALSE, KeyBody("", CapAbsent)) :
            m \in {"GET", "DELETE"}, k \in KeyNames}

InitKeys ==
    /\ db = KeysStore
    /\ InitCommon

NextKeys ==
    \/ \E r \in KeyRequests: nreq < MaxRequests /\ KeyList(r)
    \/ \E r \in KeyRequests: nreq < MaxRequests /\ KeyGet(r)

SpecKeys == InitKeys /\ [][NextKeys]_vars

\* no two records of the sequence have the same `key`
UniqueKeys(ks) == \A i, j \in 1..Len(ks): ks[i]["key"] = ks[j]["key"] => i = j

\* C31: a POST on api/key/ whose `key` is stored leaves the apikeys collection and
\* the capability table as they were, and is answered 409 when the body carries
\* capabilities; after every key request no two records have the same `key`.
C31_KeysUnique ==
    [][ nreq' = nreq + 1 =>
          /\ ( /\ req'.endpoint = "keylist" /\ req'.method = "POST"
               /\ Find(db.apikeys, "key", req'.body.key) # <<>> )
             => /\ db' = db /\ APIKEYS' = APIKEYS
                /\ CapsTruthy(req'.body.capabilities) => resp'.status = "409"
          /\ UniqueKeys(db.apikeys) => UniqueKeys(db'.apikeys) ]_vars

\* key k2 was created, and its second creation was answered 409
C31_Witness ==
    /\ req.endpoint = "keylist" /\ req.method = "POST" /\ req.body.key = "k2"
    /\ resp.status = "409"
    /\ Len(Find(db.apikeys, "key", "k2")) = 1
    /\ Len(db.apikeys) = 3

-----------------------------------------------------------------------------
(* Properties of the order of the steps of one import, under SpecImport.   *)

\* the import of worker w has dealt with every Media and every AnnotationType of
\* its bundle: each has the id under which it is stored
ReferencedObjectsDone(w) ==
    /\ Len(imp[w].mids) = Len(BundleOf(w).medias)
    /\ Len(imp[w].tids) = Len(BundleOf(w).types)

\* the objects the import of worker w has dealt with are in storage
CompletedStepsStored(w) ==
    /\ \A k \in 1..Len(imp[w].mids): Find(db.medias, "id", imp[w].mids[k]) # <<>>
    /\ \A k \in 1..Len(imp[w].tids): Find(db.annotationtypes, "id", imp[w].tids[k]) # <<>>
    /\ \A k \in 1..Len(imp[w].adocs):
          \E n \in 1..Len(db.annotations):
              db.annotations[n] = Put(imp[w].adocs[k], "_id", db.annotations[n]["_id"])

\* c is the beginning of d
Prefix(c, d) == Len(c) <= Len(d) /\ SubSeq(d, 1, Len(c)) = c

\* C32: in an import, an Annotation is persisted only when every Media and every
\* AnnotationType of the bundle has its stored id, and the Package only when
\* every Annotation of the bundle is persisted; no step takes an object out of
\* storage, so that at every point of the import, and after an import that ended
\* in an error, storage holds the objects of the steps done.
C32_ImportStepsOrdered ==
    [][ imp'[1].b # 0 =>
          /\ imp'[1].adocs # imp[1].adocs /\ imp'[1].adocs # <<>>
             => /\ ReferencedObjectsDone(1)
                /\ Len(db'.annotations) = Len(db.annotations) + 1
          /\ db'.packages # db.packages
             => /\ ReferencedObjectsDone(1)
                /\ Len(imp[1].adocs) = Len(BundleOf(1).annotations)
                /\ db'.packages = Append(db.packages, db'.packages[Len(db'.packages)])
          /\ \A c \in Collections: Prefix(db[c], db'[c])
          /\ CompletedStepsStored(1)' ]_vars

\* an import that persisted an Annotation ended in an error before the Package:
\* the Annotation is stored and the packages are those of the start
C32_Witness ==
    /\ imp[1].status = "500" /\ imp[1].pc = "idle"
    /\ imp[1].adocs # <<>>
    /\ CompletedStepsStored(1)
    /\ db.packages = imp[1].pkgs0

-----------------------------------------------------------------------------
(* Two bundle imports served by two workers at the same time:              *)
(* SpecConcurrent.  Each worker takes its steps in the order of the        *)
(* handler; the steps of the two workers interleave freely.                *)

\* the bundles imported: canonical package ids, short object ids
ConcurrentBundles == {2, 5}

\* a single Annotation posted beside the imports: it refers to a Media and an
\* AnnotationType by the short ids the imported bundle uses for its own
ConcurrentPosts ==
    {Request("POST", "list", "annotations", "", <<"admin", "">>, <<>>, TRUE,
             [media |-> "m1", meta |-> ("id-ref" :> "t1")])}

InitConcurrent == db \in ImportStores /\ InitCommon

NextConcurrent ==
    \/ \E r \in ConcurrentPosts: nreq < MaxImports /\ ElementList(r)
    \/ \E w \in Workers, b \in ConcurrentBundles: StartImport(w, b, "admin", "")
    \/ \E w \in Workers: ImportMediaFind(w)
    \/ \E w \in Workers: ImportMediaSave(w)
    \/ \E w \in Workers: ImportTypeFind(w)
    \/ \E w \in Workers: ImportTypeSave(w)
    \/ \E w \in Workers: ImportAnnotation(w)
    \/ \E w \in Workers: ImportPackage(w)
    \/ \E w \in Workers: ImportPackageSave(w)

SpecConcurrent == InitConcurrent /\ [][NextConcurrent]_vars

\* the package ids and the type titles of the bundles imported
ConcurrentPackageIds == {Bundles[b].meta["id"] : b \in ConcurrentBundles}

ConcurrentTitles ==
    UNION {{Bundles[b].types[k]["dc:title"] : k \in 1..Len(Bundles[b].types)} :
              b \in ConcurrentBundles}

\* C33: whatever the interleaving of two imports of a bundle whose package has a
\* canonical id, the packages collection holds at most one Package with that id.
C33_OnePackagePerIdConcurrently ==
    \A id \in ConcurrentPackageIds: Count(db.packages, "id", id) <= 1

\* the same in the states where at most one import has started
C33_Probe_OneImportAtATime ==
    nreq <= 1 => \A id \in ConcurrentPackageIds: Count(db.packages, "id", id) <= 1

\* C34: whatever the interleaving of two imports that carry an AnnotationType of
\* the same title, at most one AnnotationType of that title is stored.
C34_OneTypePerTitleConcurrently ==
    \A t \in ConcurrentTitles: Count(db.annotationtypes, "dc:title", t) <= 1

\* the same in the states where at most one import has started
C34_Probe_OneImportAtATime ==
    nreq <= 1 => \A t \in ConcurrentTitles: Count(db.annotationtypes, "dc:title", t) <= 1

\* the ids the objects of a bundle carry
OldIds(b) ==
    {b.medias[k]["id"] : k \in {n \in 1..Len(b.medias) : Has(b.medias[n], "id")}}
    \cup {b.types[k]["id"] : k \in {n \in 1..Len(b.types) : Has(b.types[n], "id")}}
    \cup {b.annotations[k]["id"] :
            k \in {n \in 1..Len(b.annotations) : Has(b.annotations[n], "id")}}

\* the ids under which the import of worker w has stored or found its objects
OwnIds(w) ==
    {imp[w].mids[k] : k \in 1..Len(imp[w].mids)}
    \cup {imp[w].tids[k] : k \in 1..Len(imp[w].tids)}
    \cup {imp[w].adocs[k]["id"] : k \in 1..Len(imp[w].adocs)}

\* C35: the remapping table of an import holds only entries of that import, from
\* an id of its own bundle to an id under which it stored or found one of its own
\* objects, and an import starts with an empty table; the references of an
\* Annotation are rewritten with the table of the import that persists it.
C35_MappingPrivate ==
    [][ /\ \A w \in Workers: imp'[w].b # 0 =>
            /\ imp[w].pc = "idle" /\ imp'[w] # imp[w] => imp'[w].mapping = EmptyDict
            /\ \A old \in DOMAIN imp'[w].mapping:
                  /\ old \in OldIds(BundleOf(w)')
                  /\ imp'[w].mapping[old] \in OwnIds(w)'
            /\ Len(imp'[w].adocs) = Len(imp[w].adocs) + 1
               => LET a == BundleOf(w).annotations[imp[w].i]
                      d == imp'[w].adocs[Len(imp'[w].adocs)]
                      t == imp'[w].mapping
                  IN  /\ d["media"] = Get(t, a["media"], a["media"])
                      /\ d["meta"]["id-ref"]
                            = Get(t, a["meta"]["id-ref"], a["meta"]["id-ref"])
        /\ (imp' = imp /\ Len(db'.annotations) = Len(db.annotations) + 1)
           => LET d == db'.annotations[Len(db'.annotations)]
              IN  d["media"] = "m1" /\ d["meta"]["id-ref"] = "t1" ]_vars

\* an Annotation posted on its own after an import has remapped m1 and t1 is
\* stored with the references it was sent with
C35_Witness_SingleWrite ==
    /\ \E w \in Workers: {"m1", "t1"} \subseteq DOMAIN imp[w].mapping
    /\ req.endpoint = "list" /\ req.method = "POST" /\ resp.status \in {"200", "201"}
    /\ \E k \in 1..Len(db.annotations):
          /\ db.annotations[k]["media"] = "m1"
          /\ \E j \in 1..(k - 1), w \in Workers:
                /\ imp[w].adocs # <<>>
                /\ db.annotations[j]["id"] = imp[w].adocs[1]["id"]

\* the two workers have remapped the same old id to different ids, and each has
\* persisted an Annotation that refers to the Media of its own import
C35_Witness ==
    /\ \E old \in DOMAIN imp[1].mapping \cap DOMAIN imp[2].mapping:
          imp[1].mapping[old] # imp[2].mapping[old]
    /\ \A w \in Workers:
          /\ imp[w].b = 2 /\ imp[w].adocs # <<>>
          /\ imp[w].adocs[1]["media"] = imp[w].mapping["m1"]
    /\ imp[1].adocs[1]["media"] # imp[2].adocs[1]["media"]
====
